---------------------------- MODULE Spec2Model ----------------------------
(***************************************************************************)
(* A model of the Chain node (src/node.py and src/blockchain/*.py): the    *)
(* block chain, the UTXO set, the mempool, the chain_lock, the mining      *)
(* thread and a peer reader thread handling NEW_BLOCK / NEW_TRANSACTION.   *)
(*                                                                         *)
(* Representation.                                                         *)
(*  - Strings that the code only compares or hashes (hex digests, ids,     *)
(*    JSON texts) are sequences of integers.  SHA-256 is modelled as an    *)
(*    injective function of its input (Sha256), so two digests are equal   *)
(*    exactly when their inputs are.                                        *)
(*  - The number of leading '0' hex characters of a block hash, which the  *)
(*    code reads off the digest, is a deterministic function of the header *)
(*    (LeadingZeros) and is kept as the first element of the block hash.   *)
(*  - Amounts are fixed-point integers counted in units of 1/SubUnits of   *)
(*    1e-8 coin, the precision of Python's round(x, 8).                    *)
(***************************************************************************)
EXTENDS Integers, Sequences, FiniteSets, TLC

(***************************************************************************)
(* Bounds of the model.                                                    *)
(***************************************************************************)
\* longest chain explored (genesis included)
MaxBlocks == 3
\* largest PoW difficulty a node is configured with
MaxDifficulty == 2
\* readings of time.time(): 1..MaxTime
MaxTime == 1
\* units of amount below one 1e-8 quantum
SubUnits == 3
\* 1e-8 quanta per coin (10^8 in the program, scaled down)
QuantaPerCoin == 1
\* times the node is stopped and constructed again on the same chain file
MaxRestarts == 1
\* capacity of the mempool (Mempool(max_size), scaled down)
MaxMempool == 1

(***************************************************************************)
(* Program constants.                                                      *)
(***************************************************************************)
BLOCK_REWARD == 50
COINBASE_OUTPUT_INDEX == -1
\* COINBASE_TX_ID and the genesis previous_hash: "0" * 64
ZeroHash == <<0>>
\* "genesis_reward_address_placeholder"
GenesisAddress == 0
\* {"data": "Genesis Block Marker"}
GenesisMarker == 0

Quantum == SubUnits
Coin == QuantaPerCoin * Quantum

(***************************************************************************)
(* Sequences helpers.                                                      *)
(***************************************************************************)
Last(s) == s[Len(s)]

RECURSIVE SumRange(_, _, _)
SumRange(s, lo, hi) ==
    IF lo > hi THEN 0
    ELSE IF lo = hi THEN s[lo]
    ELSE LET mid == (lo + hi) \div 2
         IN  SumRange(s, lo, mid) + SumRange(s, mid + 1, hi)

SumSeq(s) == SumRange(s, 1, Len(s))

RECURSIVE Flatten(_)
Flatten(ss) == IF ss = <<>> THEN <<>> ELSE Head(ss) \o Flatten(Tail(ss))

IsPrefix(s, t) == Len(s) <= Len(t) /\ SubSeq(t, 1, Len(s)) = s


(***************************************************************************)
(* utils.py: hashing, ECDSA, addresses, Merkle root.                       *)
(***************************************************************************)
\* hashlib.sha256(x).hexdigest(): injective, and a digest is never its input
Sha256(data) == <<Len(data)>> \o data

\* private keys are 1..NumKeys; generate_key_pair() pairs key k with PublicKey(k)
NumKeys == 3
PrivateKeys == 1..NumKeys
PublicKey(k) == 10 + k
\* a public_key string that is not hexadecimal
BadHex == 0

\* sign(private_key_hex, message): the signature verifies under the signer's
\* public key over exactly that message
sign(private_key, message) == [key |-> PublicKey(private_key), msg |-> message]
NoSignature == [key |-> BadHex, msg |-> <<>>]

\* verify(): bytes.fromhex failing is caught and answers False
verify(public_key, message, signature) ==
    /\ public_key # BadHex
    /\ signature.key = public_key
    /\ signature.msg = message

\* public_key_to_address(): bytes.fromhex raises ValueError on a non-hex string
AddressRaises(public_key) == public_key = BadHex
public_key_to_address(public_key) == 100 + public_key

\* number of leading '0' characters of the digest of a header text: the
\* largest z <= MaxDifficulty + 1 with 2^z dividing the text's checksum
RECURSIVE Valuation(_, _)
Valuation(n, cap) ==
    IF cap = 0 \/ n % 2 # 0 THEN 0 ELSE 1 + Valuation(n \div 2, cap - 1)

LeadingZeros(header_data) == Valuation(SumSeq(header_data), MaxDifficulty + 1)

\* calculate_block_hash(): f"{index}{timestamp}{previous_hash}{merkle_root}{nonce}"
\* hashed; previous_hash and merkle_root are fixed-width in the program, which
\* the lengths stand for here
HeaderData(index, timestamp, previous_hash, merkle_root, nonce) ==
    <<index, timestamp, Len(previous_hash)>> \o previous_hash
        \o <<Len(merkle_root)>> \o merkle_root \o <<nonce>>

calculate_block_hash(index, timestamp, previous_hash, merkle_root, nonce) ==
    LET data == HeaderData(index, timestamp, previous_hash, merkle_root, nonce)
    IN  <<LeadingZeros(data)>> \o Sha256(data)

\* str.startswith('0' * difficulty) on a hash string
StartsWithZeros(hash, n) == Len(hash) > 0 /\ hash[1] >= n

\* one level of the Merkle tree: pad to even, hash adjacent pairs
RECURSIVE MerklePairs(_)
MerklePairs(level) ==
    IF level = <<>> THEN <<>>
    ELSE <<Sha256(<<Len(level[1])>> \o level[1] \o level[2])>>
             \o MerklePairs(SubSeq(level, 3, Len(level)))

RECURSIVE calculate_merkle_root(_)
calculate_merkle_root(transaction_ids) ==
    IF transaction_ids = <<>> THEN Sha256(<<>>)
    ELSE IF Len(transaction_ids) = 1 THEN transaction_ids[1]
    ELSE LET even == IF Len(transaction_ids) % 2 # 0
                     THEN Append(transaction_ids, Last(transaction_ids))
                     ELSE transaction_ids
         IN  calculate_merkle_root(MerklePairs(even))

(***************************************************************************)
(* transaction.py                                                          *)
(***************************************************************************)
\* unlock_script: {"signature", "public_key"}, {"data"} or {}
SigScript(signature, public_key) ==
    [kind |-> "sig", signature |-> signature, public_key |-> public_key, data |-> 0]
DataScript(data) ==
    [kind |-> "data", signature |-> NoSignature, public_key |-> BadHex, data |-> data]
EmptyScript ==
    [kind |-> "empty", signature |-> NoSignature, public_key |-> BadHex, data |-> 0]

TransactionInput(transaction_id, output_index, unlock_script) ==
    [transaction_id |-> transaction_id, output_index |-> output_index,
     unlock_script |-> unlock_script]

TransactionOutput(amount, lock_script) ==
    [amount |-> amount, lock_script |-> lock_script]

_is_coinbase_data(tx_inputs) ==
    /\ Len(tx_inputs) = 1
    /\ tx_inputs[1].transaction_id = ZeroHash
    /\ tx_inputs[1].output_index = COINBASE_OUTPUT_INDEX

\* JSON texts of the parts of a transaction
ScriptJson(s) ==
    <<(IF s.kind = "sig" THEN 1 ELSE IF s.kind = "data" THEN 2 ELSE 0),
      s.data, s.public_key, s.signature.key, Len(s.signature.msg)>>
        \o s.signature.msg
InputRefJson(inp) ==
    <<Len(inp.transaction_id)>> \o inp.transaction_id \o <<inp.output_index>>
InputJson(inp) == InputRefJson(inp) \o ScriptJson(inp.unlock_script)
OutputJson(out) == <<out.amount, out.lock_script>>

RefsAndOutputsJson(tx_inputs, tx_outputs) ==
    <<Len(tx_inputs)>>
        \o Flatten([i \in 1..Len(tx_inputs) |-> InputRefJson(tx_inputs[i])])
        \o <<Len(tx_outputs)>>
        \o Flatten([i \in 1..Len(tx_outputs) |-> OutputJson(tx_outputs[i])])

_calculate_transaction_id(tx_inputs, tx_outputs) ==
    IF _is_coinbase_data(tx_inputs)
    THEN Sha256(<<Len(tx_inputs)>>
                  \o Flatten([i \in 1..Len(tx_inputs) |-> InputJson(tx_inputs[i])])
                  \o <<Len(tx_outputs)>>
                  \o Flatten([i \in 1..Len(tx_outputs) |-> OutputJson(tx_outputs[i])]))
    ELSE Sha256(RefsAndOutputsJson(tx_inputs, tx_outputs))

\* Transaction(tx_inputs, tx_outputs, tx_id): tx_id = <<>> stands for None
Transaction(tx_inputs, tx_outputs, tx_id) ==
    [inputs |-> tx_inputs, outputs |-> tx_outputs,
     transaction_id |-> IF tx_id # <<>> THEN tx_id
                        ELSE _calculate_transaction_id(tx_inputs, tx_outputs)]

is_coinbase(tx) == _is_coinbase_data(tx.inputs)

get_data_to_sign(tx) == RefsAndOutputsJson(tx.inputs, tx.outputs)

(***************************************************************************)
(* block.py                                                                *)
(***************************************************************************)
\* Block(...): __post_init__ computes merkle_root and hash when they are not
\* given (<<>> stands for None)
Block(index, transactions, timestamp, previous_hash, merkle_root, nonce, hash) ==
    LET mr == IF merkle_root # <<>> THEN merkle_root
              ELSE calculate_merkle_root(
                       [i \in 1..Len(transactions) |-> transactions[i].transaction_id])
    IN  [index |-> index, transactions |-> transactions, timestamp |-> timestamp,
         previous_hash |-> previous_hash, merkle_root |-> mr, nonce |-> nonce,
         hash |-> IF hash # <<>> THEN hash
                  ELSE calculate_block_hash(index, timestamp, previous_hash, mr, nonce)]

(***************************************************************************)
(* utxo.py: utxos is the dict UTXOKey -> TransactionOutput, a function     *)
(* whose domain is a set of <<transaction_id, output_index>>.              *)
(***************************************************************************)
EmptyUtxos == [k \in {} |-> 0]

add_utxo(utxos_, tx_id, index, output) ==
    [k \in DOMAIN utxos_ \cup {<<tx_id, index>>} |->
        IF k = <<tx_id, index>> THEN output ELSE utxos_[k]]

remove_utxo(utxos_, tx_id, index) ==
    [k \in DOMAIN utxos_ \ {<<tx_id, index>>} |-> utxos_[k]]

HasUtxo(utxos_, tx_id, index) == <<tx_id, index>> \in DOMAIN utxos_

RECURSIVE RemoveInputs(_, _, _)
RemoveInputs(utxos_, inputs, i) ==
    IF i > Len(inputs) THEN utxos_
    ELSE RemoveInputs(remove_utxo(utxos_, inputs[i].transaction_id,
                                  inputs[i].output_index), inputs, i + 1)

RECURSIVE AddOutputs(_, _, _)
AddOutputs(utxos_, tx, i) ==
    IF i > Len(tx.outputs) THEN utxos_
    ELSE AddOutputs(add_utxo(utxos_, tx.transaction_id, i - 1, tx.outputs[i]),
                    tx, i + 1)

\* the effect of one transaction: inputs removed, then outputs added
SpendAndAdd(utxos_, tx) == AddOutputs(RemoveInputs(utxos_, tx.inputs, 1), tx, 1)

RECURSIVE UpdateFromTxs(_, _, _)
UpdateFromTxs(utxos_, txs, i) ==
    IF i > Len(txs) THEN utxos_
    ELSE UpdateFromTxs(IF is_coinbase(txs[i]) THEN AddOutputs(utxos_, txs[i], 1)
                       ELSE SpendAndAdd(utxos_, txs[i]),
                       txs, i + 1)

update_from_block(utxos_, block) == UpdateFromTxs(utxos_, block.transactions, 1)

RECURSIVE RebuildFrom(_, _, _)
RebuildFrom(utxos_, blocks_, i) ==
    IF i > Len(blocks_) THEN utxos_
    ELSE RebuildFrom(update_from_block(utxos_, blocks_[i]), blocks_, i + 1)

rebuild(blocks_) == RebuildFrom(EmptyUtxos, blocks_, 1)

get_balance(utxos_, address) ==
    LET keys == {k \in DOMAIN utxos_ : utxos_[k].lock_script = address}
        RECURSIVE Total(_)
        Total(ks) == IF ks = {} THEN 0
                     ELSE LET k == CHOOSE x \in ks : TRUE
                          IN  utxos_[k].amount + Total(ks \ {k})
    IN  Total(keys)

(***************************************************************************)
(* consensus.py: ProofOfWork                                               *)
(***************************************************************************)
RECURSIVE ProveFrom(_, _, _, _, _, _)
ProveFrom(difficulty_, index, timestamp, previous_hash, merkle_root, nonce) ==
    IF StartsWithZeros(calculate_block_hash(index, timestamp, previous_hash,
                                            merkle_root, nonce), difficulty_)
    THEN nonce
    ELSE ProveFrom(difficulty_, index, timestamp, previous_hash, merkle_root,
                   nonce + 1)

prove(difficulty_, index, timestamp, previous_hash, merkle_root) ==
    ProveFrom(difficulty_, index, timestamp, previous_hash, merkle_root, 0)

validate_block_header(difficulty_, block) ==
    /\ block.hash = calculate_block_hash(block.index, block.timestamp,
                                         block.previous_hash, block.merkle_root,
                                         block.nonce)
    /\ StartsWithZeros(block.hash, difficulty_)

(***************************************************************************)
(* chain.py                                                                *)
(***************************************************************************)
\* round(x, 8): to the nearest multiple of one quantum, ties to the even one
Round8(x) ==
    LET q == x \div Quantum
        r == x % Quantum
    IN  IF 2 * r < Quantum THEN q * Quantum
        ELSE IF 2 * r > Quantum THEN (q + 1) * Quantum
        ELSE IF q % 2 = 0 THEN q * Quantum ELSE (q + 1) * Quantum

\* the loop over the inputs of validate_transaction: "ok" with the total input
\* value, "False", or "raise" when public_key_to_address raises
RECURSIVE ValidateInputs(_, _, _, _, _, _)
ValidateInputs(tx, utxos_, data_to_sign, i, spent_utxo_keys, total_input_value) ==
    IF i > Len(tx.inputs) THEN [result |-> "ok", total |-> total_input_value]
    ELSE LET inp == tx.inputs[i]
             utxo_key == <<inp.transaction_id, inp.output_index>>
         IN  IF utxo_key \in spent_utxo_keys THEN [result |-> "False", total |-> 0]
             ELSE IF ~HasUtxo(utxos_, inp.transaction_id, inp.output_index)
                  THEN [result |-> "False", total |-> 0]
             ELSE IF inp.unlock_script.kind # "sig"
                  THEN [result |-> "False", total |-> 0]
             ELSE IF AddressRaises(inp.unlock_script.public_key)
                  THEN [result |-> "raise", total |-> 0]
             ELSE IF utxos_[utxo_key].lock_script
                         # public_key_to_address(inp.unlock_script.public_key)
                  THEN [result |-> "False", total |-> 0]
             ELSE IF ~verify(inp.unlock_script.public_key, data_to_sign,
                             inp.unlock_script.signature)
                  THEN [result |-> "False", total |-> 0]
             ELSE ValidateInputs(tx, utxos_, data_to_sign, i + 1,
                                 spent_utxo_keys \cup {utxo_key},
                                 total_input_value + utxos_[utxo_key].amount)

TotalOutputValue(tx) == SumSeq([i \in 1..Len(tx.outputs) |-> tx.outputs[i].amount])

\* validate_transaction(tx, utxo_set): [result, fee]
validate_transaction(tx, utxos_) ==
    IF is_coinbase(tx) THEN [result |-> "False", fee |-> 0]
    ELSE IF tx.inputs = <<>> THEN [result |-> "False", fee |-> 0]
    ELSE LET ins == ValidateInputs(tx, utxos_, get_data_to_sign(tx), 1, {}, 0)
         IN  IF ins.result # "ok" THEN [result |-> ins.result, fee |-> 0]
             ELSE IF tx.outputs = <<>> THEN [result |-> "False", fee |-> 0]
             ELSE IF \E i \in 1..Len(tx.outputs) : tx.outputs[i].amount < 0
                  THEN [result |-> "False", fee |-> 0]
             ELSE LET fee == Round8(ins.total - TotalOutputValue(tx))
                  IN  IF fee < 0 THEN [result |-> "False", fee |-> 0]
                      ELSE [result |-> "ok", fee |-> fee]

\* the link checks without the index comparison (chain.py:67-69 left out)
LinkOkPreviousHashOnly(blocks_, block) ==
    IF blocks_ # <<>>
    THEN block.previous_hash = Last(blocks_).hash
    ELSE /\ block.index = 0
         /\ block.previous_hash = ZeroHash

\* the link checks of add_block (chain.py:61-76)
LinkOk(blocks_, block) ==
    IF blocks_ # <<>>
    THEN /\ block.previous_hash = Last(blocks_).hash
         /\ block.index = Last(blocks_).index + 1
    ELSE /\ block.index = 0
         /\ block.previous_hash = ZeroHash

\* the same loop with the final check "coinbase_tx_count != 1" weakened to
\* "coinbase_tx_count > 1"
RECURSIVE ValidateBlockTxsAtMostOne(_, _, _, _)
ValidateBlockTxsAtMostOne(txs, i, temp_utxo_set, coinbase_tx_count) ==
    IF i > Len(txs)
    THEN [result |-> IF coinbase_tx_count > 1 THEN "False" ELSE "ok",
          temp |-> temp_utxo_set]
    ELSE IF is_coinbase(txs[i])
         THEN IF i # 1 THEN [result |-> "False", temp |-> temp_utxo_set]
              ELSE ValidateBlockTxsAtMostOne(txs, i + 1, temp_utxo_set,
                                             coinbase_tx_count + 1)
         ELSE LET v == validate_transaction(txs[i], temp_utxo_set)
              IN  IF v.result # "ok" THEN [result |-> v.result, temp |-> temp_utxo_set]
                  ELSE ValidateBlockTxsAtMostOne(txs, i + 1,
                                                 SpendAndAdd(temp_utxo_set, txs[i]),
                                                 coinbase_tx_count)

\* the loop over block.transactions of add_block against the temporary copy
\* (chain.py:98-123): [result, temp]
RECURSIVE ValidateBlockTxs(_, _, _, _)
ValidateBlockTxs(txs, i, temp_utxo_set, coinbase_tx_count) ==
    IF i > Len(txs)
    THEN [result |-> IF coinbase_tx_count # 1 THEN "False" ELSE "ok",
          temp |-> temp_utxo_set]
    ELSE IF is_coinbase(txs[i])
         THEN IF i # 1 THEN [result |-> "False", temp |-> temp_utxo_set]
              ELSE ValidateBlockTxs(txs, i + 1, temp_utxo_set, coinbase_tx_count + 1)
         ELSE LET v == validate_transaction(txs[i], temp_utxo_set)
              IN  IF v.result # "ok" THEN [result |-> v.result, temp |-> temp_utxo_set]
                  ELSE ValidateBlockTxs(txs, i + 1, SpendAndAdd(temp_utxo_set, txs[i]),
                                        coinbase_tx_count)

\* self.blocks[-1] = block in place of the append
ReplaceTail(blocks_, block) == Append(SubSeq(blocks_, 1, Len(blocks_) - 1), block)

\* self.blocks.append(block)
AppendBlock(blocks_, block) == Append(blocks_, block)

\* add_block validating on utxo_set itself instead of utxo_set.get_copy()
\* (chain.py:94): a failed block leaves the removals and additions made so far
add_block_without_copy(blocks_, utxos_, difficulty_, block) ==
    LET rejected == [result |-> "False", blocks |-> blocks_, utxos |-> utxos_]
    IN  IF ~LinkOk(blocks_, block) THEN rejected
        ELSE IF ~validate_block_header(difficulty_, block) THEN rejected
        ELSE IF block.transactions = <<>> THEN rejected
        ELSE IF block.merkle_root # calculate_merkle_root(
                    [i \in 1..Len(block.transactions) |->
                        block.transactions[i].transaction_id])
             THEN rejected
        ELSE LET v == ValidateBlockTxs(block.transactions, 1, utxos_, 0)
             IN  IF v.result # "ok"
                 THEN [result |-> v.result, blocks |-> blocks_, utxos |-> v.temp]
                 ELSE [result |-> "True",
                       blocks |-> AppendBlock(blocks_, block),
                       utxos |-> update_from_block(utxos_, block)]

\* add_block(block, utxo_set) on chain blocks_ with consensus difficulty_:
\* [result, blocks, utxos]; result is "True", "False", or "raise" when an
\* exception leaves the method
add_block(blocks_, utxos_, difficulty_, block) ==
    LET rejected == [result |-> "False", blocks |-> blocks_, utxos |-> utxos_]
    IN  IF ~LinkOk(blocks_, block) THEN rejected
        ELSE IF ~validate_block_header(difficulty_, block) THEN rejected
        ELSE IF block.transactions = <<>> THEN rejected
        ELSE IF block.merkle_root # calculate_merkle_root(
                    [i \in 1..Len(block.transactions) |->
                        block.transactions[i].transaction_id])
             THEN rejected
        ELSE LET v == ValidateBlockTxs(block.transactions, 1, utxos_, 0)
             IN  IF v.result # "ok"
                 THEN [result |-> v.result, blocks |-> blocks_, utxos |-> utxos_]
                 ELSE [result |-> "True",
                       blocks |-> AppendBlock(blocks_, block),
                       utxos |-> update_from_block(utxos_, block)]

\* _create_genesis_block() on an empty chain, at time timestamp
GenesisBlock(difficulty_, timestamp) ==
    LET genesis_tx == Transaction(
            <<TransactionInput(ZeroHash, COINBASE_OUTPUT_INDEX,
                               DataScript(GenesisMarker))>>,
            <<TransactionOutput(0, GenesisAddress)>>, <<>>)
        merkle_root == calculate_merkle_root(<<genesis_tx.transaction_id>>)
        nonce == prove(difficulty_, 0, timestamp, ZeroHash, merkle_root)
    IN  Block(0, <<genesis_tx>>, timestamp, ZeroHash, merkle_root, nonce, <<>>)

\* Transaction.to_dict / from_dict: the id is taken from the data as it is
TransactionToDict(tx) ==
    [transaction_id |-> tx.transaction_id, inputs |-> tx.inputs, outputs |-> tx.outputs]
TransactionFromDict(data) ==
    Transaction(data.inputs, data.outputs, data.transaction_id)

\* Block.to_dict / from_dict: the stored hash and merkle_root are kept
BlockToDict(block) ==
    [index |-> block.index, timestamp |-> block.timestamp,
     transactions |-> [i \in 1..Len(block.transactions) |->
                          TransactionToDict(block.transactions[i])],
     previous_hash |-> block.previous_hash, hash |-> block.hash,
     merkle_root |-> block.merkle_root, nonce |-> block.nonce]
BlockFromDict(data) ==
    Block(data.index,
          [i \in 1..Len(data.transactions) |-> TransactionFromDict(data.transactions[i])],
          data.timestamp, data.previous_hash, data.merkle_root, data.nonce, data.hash)

\* save_to_file: {"chain": [block.to_dict() ...]}
save_to_file(blocks_) == [i \in 1..Len(blocks_) |-> BlockToDict(blocks_[i])]

\* load_from_file: no block is validated beyond the genesis' index and
\* previous_hash; a bad file gives a fresh chain
load_from_file(file, difficulty_, timestamp) ==
    LET loaded == [i \in 1..Len(file) |-> BlockFromDict(file[i])]
    IN  IF loaded = <<>> THEN <<GenesisBlock(difficulty_, timestamp)>>
        ELSE IF loaded[1].index # 0 \/ loaded[1].previous_hash # ZeroHash
             THEN <<GenesisBlock(difficulty_, timestamp)>>
        ELSE loaded

(***************************************************************************)
(* mempool.py: pending_transactions in insertion order                     *)
(***************************************************************************)
\* Mempool.get_pending_transactions(limit=50)
PendingLimit == 50

\* _validate_transaction_basic without the verification of the signatures
validate_transaction_basic_format_only(tx) ==
    /\ ~is_coinbase(tx)
    /\ tx.inputs # <<>>
    /\ tx.outputs # <<>>
    /\ \A i \in 1..Len(tx.inputs) : tx.inputs[i].unlock_script.kind = "sig"

_validate_transaction_basic(tx) ==
    /\ ~is_coinbase(tx)
    /\ tx.inputs # <<>>
    /\ tx.outputs # <<>>
    /\ \A i \in 1..Len(tx.inputs) :
          /\ tx.inputs[i].unlock_script.kind = "sig"
          /\ verify(tx.inputs[i].unlock_script.public_key, get_data_to_sign(tx),
                    tx.inputs[i].unlock_script.signature)

InMempool(pending_, tx_id) ==
    \E i \in 1..Len(pending_) : pending_[i].transaction_id = tx_id

\* add_transaction on a mempool of capacity max_size: [result, pending]
add_transaction(pending_, max_size, tx) ==
    IF InMempool(pending_, tx.transaction_id)
    THEN [result |-> FALSE, pending |-> pending_]
    ELSE IF Len(pending_) >= max_size THEN [result |-> FALSE, pending |-> pending_]
    ELSE IF ~_validate_transaction_basic(tx) THEN [result |-> FALSE, pending |-> pending_]
    ELSE [result |-> TRUE, pending |-> Append(pending_, tx)]

get_pending_transactions(pending_) ==
    SubSeq(pending_, 1, IF Len(pending_) < PendingLimit THEN Len(pending_)
                        ELSE PendingLimit)

remove_transactions(pending_, transaction_ids) ==
    SelectSeq(pending_, LAMBDA tx : tx.transaction_id \notin transaction_ids)

NonCoinbaseIds(block) ==
    {block.transactions[i].transaction_id :
        i \in {j \in 1..Len(block.transactions) : ~is_coinbase(block.transactions[j])}}

(***************************************************************************)
(* miner.py                                                                *)
(***************************************************************************)
\* the selection loop admitting every pending transaction without
\* validate_transaction (miner.py:38-39 left out)
RECURSIVE SelectWithoutValidation(_, _, _, _, _)
SelectWithoutValidation(pending_txs, i, temp_utxo_set, valid_txs_for_block, total_fees) ==
    IF i > Len(pending_txs)
    THEN [raised |-> FALSE, txs |-> valid_txs_for_block, total_fees |-> total_fees]
    ELSE SelectWithoutValidation(pending_txs, i + 1, temp_utxo_set,
                                 Append(valid_txs_for_block, pending_txs[i]),
                                 total_fees)

\* the selection loop validating every pending transaction against the
\* snapshot as it was passed, without the effects of the admitted ones
\* (miner.py:43-46 left out)
RECURSIVE SelectValidAgainstSnapshot(_, _, _, _, _)
SelectValidAgainstSnapshot(pending_txs, i, temp_utxo_set, valid_txs_for_block, total_fees) ==
    IF i > Len(pending_txs)
    THEN [raised |-> FALSE, txs |-> valid_txs_for_block, total_fees |-> total_fees]
    ELSE LET v == validate_transaction(pending_txs[i], temp_utxo_set)
         IN  IF v.result = "raise"
             THEN [raised |-> TRUE, txs |-> valid_txs_for_block, total_fees |-> total_fees]
             ELSE IF v.result = "ok"
             THEN SelectValidAgainstSnapshot(pending_txs, i + 1, temp_utxo_set,
                                             Append(valid_txs_for_block, pending_txs[i]),
                                             total_fees + v.fee)
             ELSE SelectValidAgainstSnapshot(pending_txs, i + 1, temp_utxo_set,
                                             valid_txs_for_block, total_fees)

\* the loop of mine_new_block over the pending transactions:
\* [raised, txs, total_fees]
RECURSIVE SelectValid(_, _, _, _, _)
SelectValid(pending_txs, i, temp_utxo_set, valid_txs_for_block, total_fees) ==
    IF i > Len(pending_txs)
    THEN [raised |-> FALSE, txs |-> valid_txs_for_block, total_fees |-> total_fees]
    ELSE LET v == validate_transaction(pending_txs[i], temp_utxo_set)
         IN  IF v.result = "raise"
             THEN [raised |-> TRUE, txs |-> valid_txs_for_block, total_fees |-> total_fees]
             ELSE IF v.result = "ok"
             THEN SelectValid(pending_txs, i + 1,
                              SpendAndAdd(temp_utxo_set, pending_txs[i]),
                              Append(valid_txs_for_block, pending_txs[i]),
                              total_fees + v.fee)
             ELSE SelectValid(pending_txs, i + 1, temp_utxo_set, valid_txs_for_block,
                              total_fees)

\* "Block {next_index} reward"
RewardData(next_index) == next_index

\* mine_new_block with last_block the tail it read, utxo_set the snapshot it
\* was given and timestamp the time it took: [raised, block]
mine_new_block(pending_, utxo_set, last_block, miner_address, difficulty_, timestamp) ==
    LET previous_hash == last_block.hash
        next_index == last_block.index + 1
        sel == SelectValid(get_pending_transactions(pending_), 1, utxo_set, <<>>, 0)
        coinbase_tx == Transaction(
            <<TransactionInput(ZeroHash, COINBASE_OUTPUT_INDEX,
                               DataScript(RewardData(next_index)))>>,
            <<TransactionOutput(Round8(BLOCK_REWARD * Coin + sel.total_fees),
                                miner_address)>>, <<>>)
        all_txs_for_block == <<coinbase_tx>> \o sel.txs
        merkle_root == calculate_merkle_root(
            [i \in 1..Len(all_txs_for_block) |-> all_txs_for_block[i].transaction_id])
        nonce == prove(difficulty_, next_index, timestamp, previous_hash, merkle_root)
    IN  [raised |-> sel.raised,
         block |-> Block(next_index, all_txs_for_block, timestamp, previous_hash,
                         merkle_root, nonce, <<>>)]

(***************************************************************************)
(* wallet.py: a Wallet is its private key; its address is that of the      *)
(* public key paired with it.                                              *)
(***************************************************************************)
\* what create_transaction returns when it returns None
NoTransaction == [inputs |-> <<>>, outputs |-> <<>>, transaction_id |-> <<>>]

\* sorted(available_utxos.items(), key=amount): ascending by amount; among
\* equal amounts the program keeps dict order, the model one fixed order
RECURSIVE SortedUtxoKeys(_, _)
SortedUtxoKeys(utxos_, keys) ==
    IF keys = {} THEN <<>>
    ELSE LET k == CHOOSE x \in keys :
                      \A y \in keys : utxos_[x].amount <= utxos_[y].amount
         IN  <<k>> \o SortedUtxoKeys(utxos_, keys \ {k})

\* the selection loop (wallet.py:47-52): [keys, total]
RECURSIVE SelectUtxos(_, _, _, _, _, _)
SelectUtxos(sorted_utxos, utxos_, target_amount, i, selected_utxo_keys, total_input_amount) ==
    IF i > Len(sorted_utxos)
    THEN [keys |-> selected_utxo_keys, total |-> total_input_amount]
    ELSE LET total == total_input_amount + utxos_[sorted_utxos[i]].amount
             selected == Append(selected_utxo_keys, sorted_utxos[i])
         IN  IF total >= target_amount THEN [keys |-> selected, total |-> total]
             ELSE SelectUtxos(sorted_utxos, utxos_, target_amount, i + 1, selected,
                              total)

\* Wallet.create_transaction(recipient_address, amount, fee, utxo_set) of the
\* wallet holding private_key
create_transaction(private_key, recipient_address, amount, fee, utxos_) ==
    LET address == public_key_to_address(PublicKey(private_key))
        available_utxos == {k \in DOMAIN utxos_ : utxos_[k].lock_script = address}
        target_amount == amount + fee
        sel == SelectUtxos(SortedUtxoKeys(utxos_, available_utxos), utxos_,
                           target_amount, 1, <<>>, 0)
        change_amount == Round8(sel.total - target_amount)
        outputs == <<TransactionOutput(Round8(amount), recipient_address)>>
                   \o (IF change_amount > Quantum
                       THEN <<TransactionOutput(change_amount, address)>>
                       ELSE <<>>)
        refs == [i \in 1..Len(sel.keys) |->
                    TransactionInput(sel.keys[i][1], sel.keys[i][2], EmptyScript)]
        unsigned_tx == Transaction(refs, outputs, <<>>)
        signature == sign(private_key, get_data_to_sign(unsigned_tx))
        signed_inputs == [i \in 1..Len(refs) |->
                             TransactionInput(refs[i].transaction_id,
                                              refs[i].output_index,
                                              SigScript(signature,
                                                        PublicKey(private_key)))]
    IN  IF amount <= 0 THEN NoTransaction
        ELSE IF fee < 0 THEN NoTransaction
        ELSE IF available_utxos = {} THEN NoTransaction
        ELSE IF sel.total < target_amount THEN NoTransaction
        ELSE Transaction(signed_inputs, outputs, <<>>)

(***************************************************************************)
(* node.py: the state of one Node and of its threads                       *)
(***************************************************************************)
VARIABLES
    difficulty,       \* consensus.difficulty
    node_key,         \* the private key of node_wallet
    blocks,           \* chain.blocks
    utxos,            \* utxo_set.utxos
    pending,          \* mempool.pending_transactions
    chain_lock,       \* the thread inside "with self.chain_lock", or NoThread
    pc,               \* where each thread is
    arg,              \* the block a thread passes to add_block
    ret,              \* what add_block returned to it: "True", "False", "raise"
    entry,            \* chain.blocks and utxo_set.utxos when it entered add_block
    snap,             \* miner: current_utxo_copy
    last_block_copy,  \* miner: last_block_copy (node.py:107)
    mine_tail,        \* miner: last_block of mine_new_block (miner.py:21)
    unlocked,         \* the places that touched chain or UTXO set without the lock
    sent,             \* the messages handed to p2p_node.broadcast
    restarts,         \* times the node was constructed again
    heap,             \* the TransactionOutput objects, by object identity
    p2p,              \* the P2PNode: its fields, sockets and threads
    stop_mining_flag, \* stop_mining_flag.is_set()
    node              \* the Node: is_mining, mining_thread, the chain file saved

\* a node whose mining control and chain file are not part of the
\* specification at hand
NoNode == [is_mining |-> FALSE]

\* a node whose transport is not part of the specification at hand
NoP2P == [running |-> FALSE]

vars == <<difficulty, node_key, blocks, utxos, pending, chain_lock, pc, arg, ret,
          entry, snap, last_block_copy, mine_tail, unlocked, sent, restarts,
                   heap, p2p, stop_mining_flag, node>>

Miner == "miner"
Peer == "peer"
Threads == {Miner, Peer}
NoThread == "none"

Times == 1..MaxTime
Difficulties == 1..MaxDifficulty

\* the key of a wallet held by a remote participant
PeerKey == NumKeys
Address(k) == public_key_to_address(PublicKey(k))

NoBlock == [index |-> -1, transactions |-> <<>>, timestamp |-> 0,
            previous_hash |-> <<>>, merkle_root |-> <<>>, nonce |-> 0, hash |-> <<>>]
NoEntry == [blocks |-> <<>>, utxos |-> EmptyUtxos]

(***************************************************************************)
(* What a peer may send.  Any JSON can arrive; the blocks and transactions *)
(* enumerated here are built on the node's current tail and UTXO set, one  *)
(* well-formed family and one family per check they are to fail.           *)
(***************************************************************************)
PeerCoinbase(data, amount, address, tx_id) ==
    Transaction(<<TransactionInput(ZeroHash, COINBASE_OUTPUT_INDEX, DataScript(data))>>,
                <<TransactionOutput(amount, address)>>, tx_id)

\* a one-input, one-output spend of utxo_key, signed with `signer` over `signed`
\* ("tx": its own data), carrying public_key, claiming tx_id
PeerSpend(utxo_key, amount, address, signer, signed, public_key, tx_id) ==
    LET outs == <<TransactionOutput(amount, address)>>
        unsigned == Transaction(<<TransactionInput(utxo_key[1], utxo_key[2], EmptyScript)>>,
                                outs, <<>>)
        message == IF signed = "tx" THEN get_data_to_sign(unsigned) ELSE <<>>
    IN  Transaction(<<TransactionInput(utxo_key[1], utxo_key[2],
                                       SigScript(sign(signer, message), public_key))>>,
                    outs, tx_id)

OwnedBy(utxos_, address) == {k \in DOMAIN utxos_ : utxos_[k].lock_script = address}

\* spends of the peer's own outputs that validate: paying a fee of one quantum,
\* paying out one unit more than the input holds, or claiming the id of the
\* transaction it spends
GoodSpends(utxos_, to) ==
    UNION {
        {PeerSpend(k, utxos_[k].amount + 1, Address(PeerKey), PeerKey, "tx",
                   PublicKey(PeerKey), <<>>),
         PeerSpend(k, utxos_[k].amount, Address(PeerKey), PeerKey, "tx",
                   PublicKey(PeerKey), k[1])}
        \cup (IF utxos_[k].amount >= Quantum
              THEN {PeerSpend(k, utxos_[k].amount - Quantum, to, PeerKey, "tx",
                              PublicKey(PeerKey), <<>>)}
              ELSE {})
        : k \in OwnedBy(utxos_, Address(PeerKey))}

\* spends of the peer's own outputs for their exact amount
ExactSpends(utxos_, to) ==
    {PeerSpend(k, utxos_[k].amount, to, PeerKey, "tx", PublicKey(PeerKey), <<>>)
        : k \in OwnedBy(utxos_, Address(PeerKey))}

\* spends that fail validate_transaction, each in one way
BadSpends(utxos_, to) ==
    UNION {
        {PeerSpend(k, utxos_[k].amount + Quantum, to, PeerKey, "tx",
                   PublicKey(PeerKey), <<>>),
         PeerSpend(k, utxos_[k].amount, to, PeerKey, "other", PublicKey(PeerKey), <<>>),
         PeerSpend(k, utxos_[k].amount, to, PeerKey, "tx", BadHex, <<>>)}
        : k \in OwnedBy(utxos_, Address(PeerKey))}
    \cup {PeerSpend(k, utxos_[k].amount, Address(PeerKey), PeerKey, "tx",
                    PublicKey(PeerKey), <<>>)
          : k \in OwnedBy(utxos_, to)}
    \cup {PeerSpend(<<Sha256(<<>>), 0>>, 0, to, PeerKey, "tx", PublicKey(PeerKey), <<>>)}

ChainTxIds(blocks_) ==
    UNION {{blocks_[i].transactions[j].transaction_id :
               j \in 1..Len(blocks_[i].transactions)} : i \in 1..Len(blocks_)}

\* a block with a header that validates: Merkle root, nonce and hash computed
MinedBlock(difficulty_, index, previous_hash, txs, timestamp) ==
    LET merkle_root == calculate_merkle_root(
            [i \in 1..Len(txs) |-> txs[i].transaction_id])
    IN  Block(index, txs, timestamp, previous_hash, merkle_root,
              prove(difficulty_, index, timestamp, previous_hash, merkle_root), <<>>)

\* the first nonce whose hash does not meet the difficulty
RECURSIVE WeakNonce(_, _, _, _, _, _)
WeakNonce(difficulty_, index, timestamp, previous_hash, merkle_root, nonce) ==
    IF ~StartsWithZeros(calculate_block_hash(index, timestamp, previous_hash,
                                             merkle_root, nonce), difficulty_)
    THEN nonce
    ELSE WeakNonce(difficulty_, index, timestamp, previous_hash, merkle_root, nonce + 1)

PeerBlocks(blocks_, utxos_, difficulty_, node_address) ==
    LET tail == Last(blocks_)
        n == tail.index + 1
        cb == PeerCoinbase(RewardData(n), Round8(BLOCK_REWARD * Coin),
                           Address(PeerKey), <<>>)
        cb2 == PeerCoinbase(RewardData(n), Round8(BLOCK_REWARD * Coin),
                            node_address, <<>>)
        good == GoodSpends(utxos_, node_address)
        bad == BadSpends(utxos_, node_address)
        goodLists == {<<cb>>}
                     \cup {<<cb, t>> : t \in good}
                     \cup {<<PeerCoinbase(RewardData(n), Round8(BLOCK_REWARD * Coin),
                                          Address(PeerKey), id)>>
                           : id \in ChainTxIds(blocks_)}
        exact == ExactSpends(utxos_, node_address)
        badLists == {<<>>, <<cb, cb2>>}
                    \cup {<<t>> : t \in exact}
                    \cup {<<t, cb>> : t \in exact}
                    \cup {<<cb, t>> : t \in bad}
                    \cup {<<cb, t, t>> : t \in exact}
        mr == calculate_merkle_root(<<cb.transaction_id>>)
        ts == 1
        ok == MinedBlock(difficulty_, n, tail.hash, <<cb>>, ts)
    IN  {MinedBlock(difficulty_, n, tail.hash, txs, t) :
            txs \in goodLists \cup badLists, t \in Times}
        \cup {\* a block that is already in the chain
              tail,
              \* previous_hash is not the tail's hash
              MinedBlock(difficulty_, n, ZeroHash, <<cb>>, ts),
              \* index out of sequence
              MinedBlock(difficulty_, n + 1, tail.hash, <<cb>>, ts),
              MinedBlock(difficulty_, tail.index, tail.hash, <<cb>>, ts),
              \* the stored hash is not the header's hash
              [ok EXCEPT !.hash = <<MaxDifficulty + 1>>],
              \* the stored Merkle root is not that of the transactions
              [MinedBlock(difficulty_, n, tail.hash, <<cb2>>, ts)
                  EXCEPT !.transactions = <<cb>>],
              \* the hash does not meet the difficulty
              Block(n, <<cb>>, ts, tail.hash, mr,
                    WeakNonce(difficulty_, n, ts, tail.hash, mr, 0), <<>>)}

\* the non-coinbase transactions of the chain
CommittedSpends(blocks_) ==
    UNION {{blocks_[i].transactions[j] :
               j \in {k \in 1..Len(blocks_[i].transactions) :
                          ~is_coinbase(blocks_[i].transactions[k])}}
           : i \in 1..Len(blocks_)}

\* what a peer may send as NEW_TRANSACTION: valid spends, a spend with a bad
\* signature, a coinbase, and transactions that are already in the chain
PeerTransactions(blocks_, utxos_, node_address) ==
    GoodSpends(utxos_, node_address)
    \cup CommittedSpends(blocks_)
    \cup {PeerSpend(k, utxos_[k].amount, node_address, PeerKey, "other",
                    PublicKey(PeerKey), <<>>)
          : k \in OwnedBy(utxos_, Address(PeerKey))}
    \cup {PeerCoinbase(0, 0, Address(PeerKey), <<>>)}

(***************************************************************************)
(* Node.__init__ on no chain file: a fresh chain, the UTXO set rebuilt.    *)
(***************************************************************************)
Init ==
    /\ difficulty \in Difficulties
    /\ node_key = 1
    /\ \E t \in Times : blocks = <<GenesisBlock(difficulty, t)>>
    /\ utxos = rebuild(blocks)
    /\ pending = <<>>
    /\ chain_lock = NoThread
    /\ pc = [t \in Threads |-> IF t = Miner THEN "off" ELSE "idle"]
    /\ arg = [t \in Threads |-> NoBlock]
    /\ ret = [t \in Threads |-> "none"]
    /\ entry = [t \in Threads |-> NoEntry]
    /\ snap = EmptyUtxos
    /\ last_block_copy = NoBlock
    /\ mine_tail = NoBlock
    /\ unlocked = {}
    /\ sent = {}
    /\ restarts = 0
    /\ heap = <<>>
    /\ p2p = NoP2P
    /\ stop_mining_flag = FALSE
    /\ node = NoNode

(***************************************************************************)
(* Node.start_mining: the mining thread starts.                            *)
(***************************************************************************)
StartMining ==
    /\ pc[Miner] = "off"
    /\ pc' = [pc EXCEPT ![Miner] = "loop"]
    /\ UNCHANGED <<difficulty, node_key, blocks, utxos, pending, chain_lock, arg, ret,
                   entry, snap, last_block_copy, mine_tail, unlocked, sent, restarts,
                   heap, p2p, stop_mining_flag, node>>

(***************************************************************************)
(* _mining_loop (node.py:102-107): under chain_lock, copy the UTXO set and *)
(* read the last block.                                                    *)
(***************************************************************************)
MinerEnterLock ==
    /\ pc[Miner] = "loop"
    /\ Len(blocks) < MaxBlocks
    /\ chain_lock = NoThread
    /\ chain_lock' = Miner
    /\ pc' = [pc EXCEPT ![Miner] = "snapshot"]
    /\ UNCHANGED <<difficulty, node_key, blocks, utxos, pending, arg, ret, entry, snap,
                   last_block_copy, mine_tail, unlocked, sent, restarts,
                   heap, p2p, stop_mining_flag, node>>

MinerSnapshot ==
    /\ pc[Miner] = "snapshot"
    /\ snap' = utxos
    /\ last_block_copy' = Last(blocks)
    /\ unlocked' = IF chain_lock = Miner THEN unlocked
                   ELSE unlocked \cup {"_mining_loop"}
    /\ chain_lock' = NoThread
    /\ pc' = [pc EXCEPT ![Miner] = "read_tail"]
    /\ UNCHANGED <<difficulty, node_key, blocks, utxos, pending, arg, ret, entry,
                   mine_tail, sent, restarts,
                   heap, p2p, stop_mining_flag, node>>

(***************************************************************************)
(* mine_new_block (miner.py:21): chain.get_last_block(), called by the     *)
(* mining thread after it left the lock.                                   *)
(***************************************************************************)
MineReadTail ==
    /\ pc[Miner] = "read_tail"
    /\ mine_tail' = Last(blocks)
    /\ unlocked' = IF chain_lock = Miner THEN unlocked
                   ELSE unlocked \cup {"mine_new_block"}
    /\ pc' = [pc EXCEPT ![Miner] = "build"]
    /\ UNCHANGED <<difficulty, node_key, blocks, utxos, pending, chain_lock, arg, ret,
                   entry, snap, last_block_copy, sent, restarts,
                   heap, p2p, stop_mining_flag, node>>

(***************************************************************************)
(* mine_new_block validating on the set it was passed instead of the copy  *)
(* of miner.py:31, and taking the transactions it selects out of the       *)
(* mempool.                                                                *)
(***************************************************************************)
MineBuildInPlace ==
    /\ pc[Miner] = "build"
    /\ \E timestamp \in Times :
          LET m == mine_new_block(pending, snap, mine_tail, Address(node_key),
                                  difficulty, timestamp)
          IN  /\ IF m.raised
                 THEN /\ pc' = [pc EXCEPT ![Miner] = "dead"]
                      /\ arg' = arg
                 ELSE /\ pc' = [pc EXCEPT ![Miner] = "enter"]
                      /\ arg' = [arg EXCEPT ![Miner] = m.block]
              /\ snap' = UpdateFromTxs(snap, m.block.transactions, 2)
              /\ pending' = remove_transactions(pending, NonCoinbaseIds(m.block))
    /\ UNCHANGED <<difficulty, node_key, blocks, utxos, chain_lock, ret, entry,
                   last_block_copy, mine_tail, unlocked, sent, restarts,
                   heap, p2p, stop_mining_flag, node>>

(***************************************************************************)
(* mine_new_block (miner.py:29-78): read the mempool, select, build the    *)
(* coinbase, search the nonce; then node.py:122-127.  An exception leaves  *)
(* _mining_loop and ends the thread.                                       *)
(***************************************************************************)
MineBuild ==
    /\ pc[Miner] = "build"
    /\ \E timestamp \in Times :
          LET m == mine_new_block(pending, snap, mine_tail, Address(node_key),
                                  difficulty, timestamp)
          IN  IF m.raised
              THEN /\ pc' = [pc EXCEPT ![Miner] = "dead"]
                   /\ arg' = arg
              ELSE /\ pc' = [pc EXCEPT ![Miner] = "enter"]
                   /\ arg' = [arg EXCEPT ![Miner] = m.block]
    /\ UNCHANGED <<difficulty, node_key, blocks, utxos, pending, chain_lock, ret, entry,
                   snap, last_block_copy, mine_tail, unlocked, sent, restarts,
                   heap, p2p, stop_mining_flag, node>>

(***************************************************************************)
(* "with self.chain_lock:" around chain.add_block (node.py:127, 184).      *)
(***************************************************************************)
EnterLock(t) ==
    /\ pc[t] = "enter"
    /\ chain_lock = NoThread
    /\ chain_lock' = t
    /\ entry' = [entry EXCEPT ![t] = [blocks |-> blocks, utxos |-> utxos]]
    /\ pc' = [pc EXCEPT ![t] = "add_block"]
    /\ UNCHANGED <<difficulty, node_key, blocks, utxos, pending, arg, ret, snap,
                   last_block_copy, mine_tail, unlocked, sent, restarts,
                   heap, p2p, stop_mining_flag, node>>

(***************************************************************************)
(* add_block, chain.py:61-123: a check fails or an exception is raised.    *)
(***************************************************************************)
AddBlockReject(t) ==
    /\ pc[t] = "add_block"
    /\ LET r == add_block(blocks, utxos, difficulty, arg[t])
       IN  /\ r.result # "True"
           /\ ret' = [ret EXCEPT ![t] = r.result]
           /\ blocks' = r.blocks
           /\ utxos' = r.utxos
    /\ unlocked' = IF chain_lock = t THEN unlocked ELSE unlocked \cup {"add_block"}
    /\ pc' = [pc EXCEPT ![t] = "returned"]
    /\ UNCHANGED <<difficulty, node_key, pending, chain_lock, arg, entry, snap,
                   last_block_copy, mine_tail, sent, restarts,
                   heap, p2p, stop_mining_flag, node>>

(***************************************************************************)
(* The same step with the lock given up before the append, as if           *)
(* chain.py:128 and chain.py:129 ran under two "with" blocks.              *)
(***************************************************************************)
AddBlockUpdateUtxoThenUnlock(t) ==
    /\ pc[t] = "add_block"
    /\ LET r == add_block(blocks, utxos, difficulty, arg[t])
       IN  /\ r.result = "True"
           /\ utxos' = r.utxos
    /\ chain_lock' = NoThread
    /\ pc' = [pc EXCEPT ![t] = "append"]
    /\ UNCHANGED <<difficulty, node_key, blocks, pending, arg, ret, entry, snap,
                   last_block_copy, mine_tail, unlocked, sent, restarts,
                   heap, p2p, stop_mining_flag, node>>

(***************************************************************************)
(* add_block, chain.py:128: every check passed, the UTXO set is updated.   *)
(***************************************************************************)
AddBlockUpdateUtxo(t) ==
    /\ pc[t] = "add_block"
    /\ LET r == add_block(blocks, utxos, difficulty, arg[t])
       IN  /\ r.result = "True"
           /\ utxos' = r.utxos
    /\ unlocked' = IF chain_lock = t THEN unlocked ELSE unlocked \cup {"add_block"}
    /\ pc' = [pc EXCEPT ![t] = "append"]
    /\ UNCHANGED <<difficulty, node_key, blocks, pending, chain_lock, arg, ret, entry,
                   snap, last_block_copy, mine_tail, sent, restarts,
                   heap, p2p, stop_mining_flag, node>>

(***************************************************************************)
(* add_block, chain.py:129-131: the block is appended, True is returned.   *)
(***************************************************************************)
AddBlockAppend(t) ==
    /\ pc[t] = "append"
    /\ blocks' = AppendBlock(blocks, arg[t])
    /\ ret' = [ret EXCEPT ![t] = "True"]
    /\ pc' = [pc EXCEPT ![t] = "returned"]
    /\ UNCHANGED <<difficulty, node_key, utxos, pending, chain_lock, arg, entry, snap,
                   last_block_copy, mine_tail, unlocked, sent, restarts,
                   heap, p2p, stop_mining_flag, node>>

(***************************************************************************)
(* Leaving "with self.chain_lock:".                                        *)
(***************************************************************************)
LeaveLock(t) ==
    /\ pc[t] = "returned"
    /\ chain_lock' = IF chain_lock = t THEN NoThread ELSE chain_lock
    /\ pc' = [pc EXCEPT ![t] = "after"]
    /\ UNCHANGED <<difficulty, node_key, blocks, utxos, pending, arg, ret, entry, snap,
                   last_block_copy, mine_tail, unlocked, sent, restarts,
                   heap, p2p, stop_mining_flag, node>>

(***************************************************************************)
(* network/p2p.py: the connected peers and broadcast.                      *)
(***************************************************************************)
\* the keys of P2PNode.connections, (host, port) tuples: the peer whose reader
\* thread is modelled and one other connected peer
SenderAddr == <<"10.0.0.2", "5001">>
OtherAddr == <<"10.0.0.3", "5002">>
Connections == {SenderAddr, OtherAddr}

\* exclude_peer = None
NoPeer == <<>>

\* f"{peer_addr[0]}:{peer_addr[1]}" (p2p.py:132): the text "host:port", which
\* is not the tuple (host, port)
PeerIdStr(peer_addr) == <<peer_addr[1], ":", peer_addr[2]>>

\* what _handle_peer hands to message_handler as the peer (p2p.py:132-133)
HandlerPeer(peer_addr) == PeerIdStr(peer_addr)

\* P2PNode.broadcast(message_str, exclude_peer): the peers it sends to
broadcast(connections_, exclude_peer) ==
    {peer_addr \in connections_ : peer_addr # exclude_peer}

\* a call of p2p_node.broadcast: the message, the thread that made the call,
\* the peers it went to, and n, the number of calls so far for this type and id
Broadcast(sent_, type, id, sender, exclude_peer) ==
    sent_ \cup {[type |-> type, id |-> id, by |-> sender,
                 to |-> broadcast(Connections, exclude_peer),
                 n |-> 1 + Cardinality({m \in sent_ : m.type = type /\ m.id = id})]}

BroadcastBlock(sent_, block, sender, exclude_peer) ==
    Broadcast(sent_, "NEW_BLOCK", block.hash, sender, exclude_peer)
BroadcastTx(sent_, tx, sender, exclude_peer) ==
    Broadcast(sent_, "NEW_TRANSACTION", tx.transaction_id, sender, exclude_peer)

(***************************************************************************)
(* _mining_loop broadcasting without testing block_added (node.py:130).    *)
(***************************************************************************)
MinerAfterBroadcastAlways ==
    /\ pc[Miner] = "after"
    /\ sent' = BroadcastBlock(sent, arg[Miner], Miner, NoPeer)
    /\ pending' = remove_transactions(pending, NonCoinbaseIds(arg[Miner]))
    /\ pc' = [pc EXCEPT ![Miner] = "loop"]
    /\ arg' = [arg EXCEPT ![Miner] = NoBlock]
    /\ ret' = [ret EXCEPT ![Miner] = "none"]
    /\ entry' = [entry EXCEPT ![Miner] = NoEntry]
    /\ snap' = EmptyUtxos
    /\ last_block_copy' = NoBlock
    /\ mine_tail' = NoBlock
    /\ UNCHANGED <<difficulty, node_key, blocks, utxos, chain_lock, unlocked, restarts,
                   heap, p2p, stop_mining_flag, node>>

(***************************************************************************)
(* _mining_loop (node.py:130-137): broadcast the block and evict its       *)
(* transactions if it was added, discard it otherwise; loop.               *)
(***************************************************************************)
MinerAfter ==
    /\ pc[Miner] = "after"
    /\ IF ret[Miner] = "True"
       THEN /\ sent' = BroadcastBlock(sent, arg[Miner], Miner, NoPeer)
            /\ pending' = remove_transactions(pending, NonCoinbaseIds(arg[Miner]))
       ELSE UNCHANGED <<sent, pending>>
    /\ pc' = [pc EXCEPT ![Miner] = "loop"]
    /\ arg' = [arg EXCEPT ![Miner] = NoBlock]
    /\ ret' = [ret EXCEPT ![Miner] = "none"]
    /\ entry' = [entry EXCEPT ![Miner] = NoEntry]
    /\ snap' = EmptyUtxos
    /\ last_block_copy' = NoBlock
    /\ mine_tail' = NoBlock
    /\ UNCHANGED <<difficulty, node_key, blocks, utxos, chain_lock, unlocked, restarts,
                   heap, p2p, stop_mining_flag, node>>

(***************************************************************************)
(* _handle_network_message, NEW_BLOCK (node.py:180-185): a block arrives.  *)
(***************************************************************************)
PeerReceiveBlock ==
    /\ pc[Peer] = "idle"
    /\ Len(blocks) < MaxBlocks
    /\ \E b \in PeerBlocks(blocks, utxos, difficulty, Address(node_key)) :
          arg' = [arg EXCEPT ![Peer] = BlockFromDict(BlockToDict(b))]
    /\ pc' = [pc EXCEPT ![Peer] = "enter"]
    /\ UNCHANGED <<difficulty, node_key, blocks, utxos, pending, chain_lock, ret, entry,
                   snap, last_block_copy, mine_tail, unlocked, sent, restarts,
                   heap, p2p, stop_mining_flag, node>>

(***************************************************************************)
(* _handle_network_message, NEW_BLOCK, gossiping an accepted block without *)
(* mempool.remove_transactions (node.py:189).                              *)
(***************************************************************************)
PeerAfterGossipOnly ==
    /\ pc[Peer] = "after"
    /\ IF ret[Peer] = "True"
       THEN sent' = BroadcastBlock(sent, arg[Peer], Peer, HandlerPeer(SenderAddr))
       ELSE UNCHANGED sent
    /\ pc' = [pc EXCEPT ![Peer] = "idle"]
    /\ arg' = [arg EXCEPT ![Peer] = NoBlock]
    /\ ret' = [ret EXCEPT ![Peer] = "none"]
    /\ entry' = [entry EXCEPT ![Peer] = NoEntry]
    /\ UNCHANGED <<difficulty, node_key, blocks, utxos, pending, chain_lock, snap,
                   last_block_copy, mine_tail, unlocked, restarts,
                   heap, p2p, stop_mining_flag, node>>

(***************************************************************************)
(* _handle_network_message, NEW_BLOCK (node.py:186-192, 225): evict and    *)
(* gossip if the block was accepted; an exception is logged.               *)
(***************************************************************************)
PeerAfter ==
    /\ pc[Peer] = "after"
    /\ IF ret[Peer] = "True"
       THEN /\ sent' = BroadcastBlock(sent, arg[Peer], Peer, HandlerPeer(SenderAddr))
            /\ pending' = remove_transactions(pending, NonCoinbaseIds(arg[Peer]))
       ELSE UNCHANGED <<sent, pending>>
    /\ pc' = [pc EXCEPT ![Peer] = "idle"]
    /\ arg' = [arg EXCEPT ![Peer] = NoBlock]
    /\ ret' = [ret EXCEPT ![Peer] = "none"]
    /\ entry' = [entry EXCEPT ![Peer] = NoEntry]
    /\ UNCHANGED <<difficulty, node_key, blocks, utxos, chain_lock, snap,
                   last_block_copy, mine_tail, unlocked, restarts,
                   heap, p2p, stop_mining_flag, node>>

(***************************************************************************)
(* _handle_network_message, NEW_TRANSACTION (node.py:172-177).             *)
(***************************************************************************)
PeerReceiveTransaction ==
    /\ pc[Peer] = "idle"
    /\ \E tx \in PeerTransactions(blocks, utxos, Address(node_key)) :
          LET r == add_transaction(pending, MaxMempool,
                                   TransactionFromDict(TransactionToDict(tx)))
          IN  /\ pending' = r.pending
              /\ sent' = IF r.result THEN BroadcastTx(sent, tx, Peer, HandlerPeer(SenderAddr))
                             ELSE sent
    /\ UNCHANGED <<difficulty, node_key, blocks, utxos, chain_lock, pc, arg, ret, entry,
                   snap, last_block_copy, mine_tail, unlocked, restarts,
                   heap, p2p, stop_mining_flag, node>>

(***************************************************************************)
(* Node.stop (node.py:302-313) saves the chain under chain_lock; a new     *)
(* Node is then constructed on that chain file (node.py:31-64), with the   *)
(* consensus it is given.                                                  *)
(***************************************************************************)
Restart ==
    /\ restarts < MaxRestarts
    /\ chain_lock = NoThread
    /\ \E d \in Difficulties, t \in Times :
          /\ difficulty' = d
          /\ blocks' = load_from_file(save_to_file(blocks), d, t)
    /\ utxos' = rebuild(blocks')
    /\ node_key' = node_key + 1
    /\ pending' = <<>>
    /\ chain_lock' = NoThread
    /\ pc' = [t \in Threads |-> IF t = Miner THEN "off" ELSE "idle"]
    /\ arg' = [t \in Threads |-> NoBlock]
    /\ ret' = [t \in Threads |-> "none"]
    /\ entry' = [t \in Threads |-> NoEntry]
    /\ snap' = EmptyUtxos
    /\ last_block_copy' = NoBlock
    /\ mine_tail' = NoBlock
    /\ sent' = {}
    /\ restarts' = restarts + 1
    /\ UNCHANGED <<unlocked, heap, p2p, stop_mining_flag, node>>

Next ==
    \/ StartMining
    \/ MinerEnterLock
    \/ MinerSnapshot
    \/ MineReadTail
    \/ MineBuild
    \/ \E t \in Threads : EnterLock(t)
    \/ \E t \in Threads : AddBlockReject(t)
    \/ \E t \in Threads : AddBlockUpdateUtxo(t)
    \/ \E t \in Threads : AddBlockAppend(t)
    \/ \E t \in Threads : LeaveLock(t)
    \/ MinerAfter
    \/ PeerReceiveBlock
    \/ PeerAfter
    \/ PeerReceiveTransaction
    \/ Restart

Spec == Init /\ [][Next]_vars

\* A thread that has returned from add_block is not blocked: it leaves the
\* "with self.chain_lock:" block and runs the statements after it
\* (node.py:130-137, 186-192), none of which waits for another thread.
FairSpec ==
    /\ Spec
    /\ \A t \in Threads : WF_vars(LeaveLock(t))
    /\ WF_vars(MinerAfter)
    /\ WF_vars(PeerAfter)

(***************************************************************************)
(* The components called one at a time by a single thread, as a client of  *)
(* Wallet, Mempool, miner and Chain calls them: create and submit a        *)
(* transaction, receive a transaction, mine, commit, receive a block.      *)
(* pc is the call that was made last; arg, ret and entry keep its inputs,  *)
(* its results and the state before it until the client goes on.           *)
(***************************************************************************)
\* longest chain explored by these calls (genesis included)
ScMaxBlocks == 4
\* capacity of the mempool there
ScMaxMempool == 2

\* the difficulty of the consensus there
ScDifficulty == CHOOSE d \in Difficulties : \A e \in Difficulties : d <= e
\* the wallet that creates transactions, and the wallet that mines
ScSender == 1
ScMiner == NumKeys

\* no request made of the wallet; a request is kept with the transaction made for it
NoRequest == [sender |-> 0, recipient |-> 0, amount |-> 0, fee |-> 0,
              tx |-> NoTransaction]
NoCall == [blocks |-> <<>>, utxos |-> EmptyUtxos, pending |-> <<>>]

\* the private key whose address is `address`, 0 if there is none
OwnerKey(address) ==
    IF \E k \in PrivateKeys : Address(k) = address
    THEN CHOOSE k \in PrivateKeys : Address(k) = address
    ELSE 0

\* the address the owner of private key k pays to in these calls
PayTo(k) == Address((k % NumKeys) + 1)

\* the output a committed transaction created under utxo_key
CommittedOutput(blocks_, utxo_key) ==
    LET txs == Flatten([i \in 1..Len(blocks_) |-> blocks_[i].transactions])
        j == CHOOSE i \in 1..Len(txs) :
                 /\ txs[i].transaction_id = utxo_key[1]
                 /\ utxo_key[2] + 1 \in 1..Len(txs[i].outputs)
    IN  txs[j].outputs[utxo_key[2] + 1]

\* the keys that inputs of committed non-coinbase transactions have consumed
\* and that are not in the UTXO set
ConsumedKeys(blocks_, utxos_) ==
    UNION {{<<tx.inputs[i].transaction_id, tx.inputs[i].output_index>>
               : i \in 1..Len(tx.inputs)}
           : tx \in CommittedSpends(blocks_)} \ DOMAIN utxos_

\* the correctly signed one-input spend of an output by its owner, for the
\* fee given, when the owner is one of `owners`
OwnerSpends(utxo_key, output, owners, fee) ==
    LET k == OwnerKey(output.lock_script)
    IN  IF k \notin owners \/ fee > output.amount THEN {}
        ELSE {PeerSpend(utxo_key, output.amount - fee, PayTo(k), k, "tx",
                        PublicKey(k), <<>>)}

\* the transactions submitted to the mempool: the sender's spends of its live
\* outputs and of its consumed outputs, spends of the first output of a
\* pending transaction, a transaction that is pending already, and ill-formed
\* spends of the miner's newest output
ScTransactions(blocks_, utxos_, pending_) ==
    LET created == {<<pending_[i].transaction_id, 0>> : i \in 1..Len(pending_)}
        after == UpdateFromTxs(utxos_, pending_, 1)
        newest == Last(blocks_).transactions[1]
        k == <<newest.transaction_id, 0>>
    IN  UNION {OwnerSpends(u, utxos_[u], {ScSender}, Quantum) : u \in DOMAIN utxos_}
        \cup UNION {OwnerSpends(u, CommittedOutput(blocks_, u), {ScSender}, Quantum)
                    : u \in ConsumedKeys(blocks_, utxos_)}
        \cup UNION {OwnerSpends(u, after[u], PrivateKeys \ {ScMiner}, 0)
                    : u \in created \cap DOMAIN after}
        \cup {pending_[i] : i \in 1..Len(pending_)}
        \cup (IF k \in DOMAIN utxos_ /\ utxos_[k].lock_script = Address(ScMiner)
              THEN {PeerSpend(k, utxos_[k].amount, PayTo(ScMiner), ScMiner,
                              "other", PublicKey(ScMiner), <<>>),
                    PeerSpend(k, utxos_[k].amount, PayTo(ScMiner), ScMiner,
                              "tx", BadHex, <<>>),
                    Transaction(<<TransactionInput(k[1], k[2], EmptyScript)>>,
                                <<TransactionOutput(utxos_[k].amount,
                                                    PayTo(ScMiner))>>, <<>>)}
              ELSE {PeerCoinbase(0, 0, Address(ScMiner), <<>>)})

\* what is asked of Wallet.create_transaction: an amount that leaves change
\* with a fee, and an amount that leaves one quantum without a fee
ScRequests == {[amount |-> 10 * Coin, fee |-> Coin],
               [amount |-> BLOCK_REWARD * Coin - Quantum, fee |-> 0]}
\* the fees a received coinbase collects
ScFees == {0, Coin}

\* the blocks received: one for each pending transaction, holding it after a
\* coinbase, the same after a copy of the coinbase of the tail block, and
\* blocks of one coinbase that pays the miner's wallet what the coinbase of
\* the block after it is to pay
ScBlocks(blocks_, pending_, difficulty_) ==
    LET tail == Last(blocks_)
        n == tail.index + 1
        cb == PeerCoinbase(RewardData(n), Round8(BLOCK_REWARD * Coin),
                           PayTo(ScMiner), <<>>)
    IN  {MinedBlock(difficulty_, n, tail.hash, <<cb, pending_[i]>>, t)
            : i \in 1..Len(pending_), t \in Times}
        \cup {MinedBlock(difficulty_, n, tail.hash,
                         <<tail.transactions[1], pending_[i]>>, t)
              : i \in 1..Len(pending_), t \in Times}
        \cup {MinedBlock(difficulty_, n, tail.hash,
                         <<PeerCoinbase(RewardData(n + 1),
                                        Round8(BLOCK_REWARD * Coin + f),
                                        Address(ScMiner), <<>>)>>, t)
              : f \in ScFees, t \in Times}

\* a chain of the genesis block and a block whose coinbase pays the sender
ScInit ==
    /\ difficulty = ScDifficulty
    /\ node_key = ScMiner
    /\ \E t \in Times :
          LET genesis == GenesisBlock(difficulty, t)
              cb == PeerCoinbase(RewardData(1), Round8(BLOCK_REWARD * Coin),
                                 Address(ScSender), <<>>)
          IN  blocks = <<genesis,
                         MinedBlock(difficulty, genesis.index + 1, genesis.hash,
                                    <<cb>>, t)>>
    /\ utxos = rebuild(blocks)
    /\ pending = <<>>
    /\ chain_lock = NoThread
    /\ pc = "ready"
    /\ arg = [request |-> NoRequest, tx |-> NoTransaction, block |-> NoBlock]
    /\ ret = [tx |-> "none", block |-> "none"]
    /\ entry = NoCall
    /\ snap = EmptyUtxos
    /\ last_block_copy = NoBlock
    /\ mine_tail = NoBlock
    /\ unlocked = {}
    /\ sent = {}
    /\ restarts = 0
    /\ heap = <<>>
    /\ p2p = NoP2P
    /\ stop_mining_flag = FALSE
    /\ node = NoNode

\* Mempool.add_transaction(Transaction.from_dict(payload)) (node.py:173-174)
ScAddTransaction ==
    /\ pc = "ready"
    /\ \E tx \in ScTransactions(blocks, utxos, pending) :
          LET transaction == TransactionFromDict(TransactionToDict(tx))
              r == add_transaction(pending, ScMaxMempool, transaction)
          IN  /\ pending' = r.pending
              /\ arg' = [arg EXCEPT !.tx = transaction]
              /\ ret' = [ret EXCEPT !.tx = IF r.result THEN "True" ELSE "False"]
    /\ entry' = [blocks |-> blocks, utxos |-> utxos, pending |-> pending]
    /\ pc' = "add_transaction"
    /\ UNCHANGED <<difficulty, node_key, blocks, utxos, chain_lock, snap,
                   last_block_copy, mine_tail, unlocked, sent, restarts,
                   heap, p2p, stop_mining_flag, node>>

\* create_transaction_from_managed_wallet, then submit_and_broadcast_transaction
\* (node.py:230-258), one request at a time
ScCreateTransaction ==
    /\ pc = "ready"
    /\ arg.request = NoRequest
    /\ \E q \in ScRequests :
          LET amount == q.amount
              fee == q.fee
              tx == create_transaction(ScSender, PayTo(ScSender), amount, fee, utxos)
              r == add_transaction(pending, ScMaxMempool, tx)
          IN  /\ tx # NoTransaction
              /\ r.result
              /\ pending' = r.pending
              /\ arg' = [request |-> [sender |-> ScSender,
                                      recipient |-> PayTo(ScSender),
                                      amount |-> amount, fee |-> fee,
                                      tx |-> tx],
                         tx |-> tx, block |-> NoBlock]
              /\ ret' = [ret EXCEPT !.tx = "True"]
    /\ entry' = [blocks |-> blocks, utxos |-> utxos, pending |-> pending]
    /\ pc' = "create_transaction"
    /\ UNCHANGED <<difficulty, node_key, blocks, utxos, chain_lock, snap,
                   last_block_copy, mine_tail, unlocked, sent, restarts,
                   heap, p2p, stop_mining_flag, node>>

\* utxo_set.get_copy(), then miner.mine_new_block for the miner's address
\* (node.py:106, 114-120)
ScMine ==
    /\ pc = "ready"
    /\ Len(blocks) < ScMaxBlocks
    /\ \E timestamp \in Times :
          LET m == mine_new_block(pending, utxos, Last(blocks), Address(ScMiner),
                                  difficulty, timestamp)
          IN  /\ ~m.raised
              /\ arg' = [arg EXCEPT !.block = m.block]
    /\ entry' = [blocks |-> blocks, utxos |-> utxos, pending |-> pending]
    /\ snap' = utxos
    /\ mine_tail' = Last(blocks)
    /\ pc' = "mined"
    /\ UNCHANGED <<difficulty, node_key, blocks, utxos, pending, chain_lock, ret,
                   last_block_copy, unlocked, sent, restarts,
                   heap, p2p, stop_mining_flag, node>>

\* chain.add_block of the mined block, then the eviction (node.py:128-135)
ScCommit ==
    /\ pc = "mined"
    /\ LET r == add_block(blocks, utxos, difficulty, arg.block)
       IN  /\ blocks' = r.blocks
           /\ utxos' = r.utxos
           /\ ret' = [ret EXCEPT !.block = r.result]
           /\ pending' = IF r.result = "True"
                         THEN remove_transactions(pending, NonCoinbaseIds(arg.block))
                         ELSE pending
    /\ pc' = "committed"
    /\ UNCHANGED <<difficulty, node_key, chain_lock, arg, entry, snap,
                   last_block_copy, mine_tail, unlocked, sent, restarts,
                   heap, p2p, stop_mining_flag, node>>

\* chain.add_block of a received block, then the eviction (node.py:181-189)
ScAddBlock ==
    /\ pc = "ready"
    /\ Len(blocks) < ScMaxBlocks
    /\ \E b \in ScBlocks(blocks, pending, difficulty) :
          LET block == BlockFromDict(BlockToDict(b))
              r == add_block(blocks, utxos, difficulty, block)
          IN  /\ blocks' = r.blocks
              /\ utxos' = r.utxos
              /\ arg' = [arg EXCEPT !.block = block]
              /\ ret' = [ret EXCEPT !.block = r.result]
              /\ pending' = IF r.result = "True"
                            THEN remove_transactions(pending, NonCoinbaseIds(block))
                            ELSE pending
    /\ entry' = [blocks |-> blocks, utxos |-> utxos, pending |-> pending]
    /\ pc' = "add_block"
    /\ UNCHANGED <<difficulty, node_key, chain_lock, snap, last_block_copy,
                   mine_tail, unlocked, sent, restarts,
                   heap, p2p, stop_mining_flag, node>>

\* the client goes on to its next call: the results of the last one are
\* dropped, the request is kept while its transaction is pending
ScReturn ==
    /\ pc \in {"add_transaction", "create_transaction", "committed", "add_block"}
    /\ pc' = "ready"
    /\ arg' = IF arg.request # NoRequest
                 /\ InMempool(pending, arg.request.tx.transaction_id)
              THEN [arg EXCEPT !.tx = NoTransaction, !.block = NoBlock]
              ELSE [request |-> NoRequest, tx |-> NoTransaction, block |-> NoBlock]
    /\ ret' = [tx |-> "none", block |-> "none"]
    /\ entry' = NoCall
    /\ snap' = EmptyUtxos
    /\ mine_tail' = NoBlock
    /\ UNCHANGED <<difficulty, node_key, blocks, utxos, pending, chain_lock,
                   last_block_copy, unlocked, sent, restarts,
                   heap, p2p, stop_mining_flag, node>>

ScNext ==
    \/ ScAddTransaction
    \/ ScCreateTransaction
    \/ ScMine
    \/ ScCommit
    \/ ScAddBlock
    \/ ScReturn

ScenarioSpec == ScInit /\ [][ScNext]_vars

(***************************************************************************)
(* Mempool.add_transaction called from several threads.  The mempool has   *)
(* no lock: a thread can be interleaved with the others between the test   *)
(* of the id (mempool.py:19), the test of the size (:23), the validation   *)
(* (:29) and the insertion (:33).  The miner and commit paths read the     *)
(* pending transactions and pop ids.  The chain does not change here.      *)
(***************************************************************************)
\* capacity of the mempool there
MpMaxSize == 2

\* a peer-reader thread and a control thread add; the miner reads and removes
Reader == "reader"
Control == "control"
MpAdders == {Reader, Control}
MpThreads == MpAdders \cup {Miner}

\* the transactions added: spends of the sender's output to each wallet, and
\* one with a signature over other data
MpTransactions(utxos_) ==
    LET mine == {u \in DOMAIN utxos_ : utxos_[u].lock_script = Address(ScSender)}
    IN  UNION {{PeerSpend(u, utxos_[u].amount, Address(k), ScSender, "tx",
                          PublicKey(ScSender), <<>>) : k \in PrivateKeys}
               \cup {PeerSpend(u, utxos_[u].amount, Address(ScSender), ScSender,
                               "other", PublicKey(ScSender), <<>>)}
               : u \in mine}

\* self.pending_transactions[transaction.transaction_id] = transaction
DictSet(pending_, tx) ==
    IF InMempool(pending_, tx.transaction_id)
    THEN [i \in 1..Len(pending_) |->
             IF pending_[i].transaction_id = tx.transaction_id THEN tx
             ELSE pending_[i]]
    ELSE Append(pending_, tx)

MpInit ==
    /\ difficulty = ScDifficulty
    /\ node_key = ScMiner
    /\ \E t \in Times :
          LET genesis == GenesisBlock(difficulty, t)
              cb == PeerCoinbase(RewardData(1), Round8(BLOCK_REWARD * Coin),
                                 Address(ScSender), <<>>)
          IN  blocks = <<genesis,
                         MinedBlock(difficulty, genesis.index + 1, genesis.hash,
                                    <<cb>>, t)>>
    /\ utxos = rebuild(blocks)
    /\ pending = <<>>
    /\ chain_lock = NoThread
    /\ pc = [t \in MpThreads |-> "idle"]
    /\ arg = [t \in MpThreads |-> NoTransaction]
    /\ ret = [t \in MpThreads |-> "none"]
    /\ entry = NoCall
    /\ snap = EmptyUtxos
    /\ last_block_copy = NoBlock
    /\ mine_tail = NoBlock
    /\ unlocked = {}
    /\ sent = {}
    /\ restarts = 0
    /\ heap = <<>>
    /\ p2p = NoP2P
    /\ stop_mining_flag = FALSE
    /\ node = NoNode

MpUnchanged ==
    UNCHANGED <<difficulty, node_key, blocks, utxos, chain_lock, entry, snap,
                last_block_copy, mine_tail, unlocked, sent, restarts,
                   heap, p2p, stop_mining_flag, node>>

\* a thread calls add_transaction(transaction)
MpCall(t) ==
    /\ pc[t] = "idle"
    /\ \E tx \in MpTransactions(utxos) :
          arg' = [arg EXCEPT ![t] = tx]
    /\ pc' = [pc EXCEPT ![t] = "check_id"]
    /\ ret' = [ret EXCEPT ![t] = "none"]
    /\ UNCHANGED pending
    /\ MpUnchanged

\* mempool.py:19-21
MpCheckId(t) ==
    /\ pc[t] = "check_id"
    /\ IF InMempool(pending, arg[t].transaction_id)
       THEN /\ ret' = [ret EXCEPT ![t] = "False"]
            /\ pc' = [pc EXCEPT ![t] = "idle"]
       ELSE /\ pc' = [pc EXCEPT ![t] = "check_size"]
            /\ UNCHANGED ret
    /\ UNCHANGED <<pending, arg>>
    /\ MpUnchanged

\* mempool.py:23-26
MpCheckSize(t) ==
    /\ pc[t] = "check_size"
    /\ IF Len(pending) >= MpMaxSize
       THEN /\ ret' = [ret EXCEPT ![t] = "False"]
            /\ pc' = [pc EXCEPT ![t] = "idle"]
       ELSE /\ pc' = [pc EXCEPT ![t] = "validate"]
            /\ UNCHANGED ret
    /\ UNCHANGED <<pending, arg>>
    /\ MpUnchanged

\* mempool.py:29-31
MpValidate(t) ==
    /\ pc[t] = "validate"
    /\ IF ~_validate_transaction_basic(arg[t])
       THEN /\ ret' = [ret EXCEPT ![t] = "False"]
            /\ pc' = [pc EXCEPT ![t] = "idle"]
       ELSE /\ pc' = [pc EXCEPT ![t] = "insert"]
            /\ UNCHANGED ret
    /\ UNCHANGED <<pending, arg>>
    /\ MpUnchanged

\* mempool.py:33-35
MpInsert(t) ==
    /\ pc[t] = "insert"
    /\ pending' = DictSet(pending, arg[t])
    /\ ret' = [ret EXCEPT ![t] = "True"]
    /\ pc' = [pc EXCEPT ![t] = "idle"]
    /\ UNCHANGED arg
    /\ MpUnchanged

\* the miner's mempool.get_pending_transactions() (miner.py:32)
MpGetPending ==
    /\ pc[Miner] = "idle"
    /\ pending # <<>>
    /\ ret' = [ret EXCEPT ![Miner] = get_pending_transactions(pending)]
    /\ pc' = [pc EXCEPT ![Miner] = "remove"]
    /\ UNCHANGED <<pending, arg>>
    /\ MpUnchanged

\* one pop of remove_transactions, for an id that was read (mempool.py:78-80)
MpPop ==
    /\ pc[Miner] = "remove"
    /\ \E i \in 1..Len(ret[Miner]) :
          pending' = remove_transactions(pending, {ret[Miner][i].transaction_id})
    /\ ret' = [ret EXCEPT ![Miner] = "none"]
    /\ pc' = [pc EXCEPT ![Miner] = "idle"]
    /\ UNCHANGED arg
    /\ MpUnchanged

MpNext ==
    \/ \E t \in MpAdders : MpCall(t)
    \/ \E t \in MpAdders : MpCheckId(t)
    \/ \E t \in MpAdders : MpCheckSize(t)
    \/ \E t \in MpAdders : MpValidate(t)
    \/ \E t \in MpAdders : MpInsert(t)
    \/ MpGetPending
    \/ MpPop

MempoolSpec == MpInit /\ [][MpNext]_vars

(***************************************************************************)
(* Properties.                                                             *)
(***************************************************************************)
\* the transactions of the chain, in order
CommittedTxs(blocks_) == Flatten([i \in 1..Len(blocks_) |-> blocks_[i].transactions])

Linked(blocks_) ==
    \A i \in 1..Len(blocks_) :
        /\ blocks_[i].index = i - 1
        /\ i > 1 => blocks_[i].previous_hash = blocks_[i - 1].hash

\* C2: chain linkage.  In every reachable state the block at position i has
\* index i (counted from 0) and every block after the first carries the hash
\* of the block before it; and add_block returns False, leaving the chain as
\* it was, for a block whose previous_hash is not the tail's hash or whose
\* index is not the tail's index plus one.
C2_ChainLinkage ==
    /\ Linked(blocks)
    /\ \A t \in Threads :
          (/\ pc[t] = "returned"
           /\ \/ arg[t].previous_hash # Last(entry[t].blocks).hash
              \/ arg[t].index # Last(entry[t].blocks).index + 1)
          => ret[t] = "False" /\ blocks = entry[t].blocks

\* the miner's candidate was rejected because a peer's block took its place
C2_Witness ==
    /\ pc[Miner] = "returned"
    /\ Len(blocks) = MaxBlocks
    /\ arg[Miner].index = Last(entry[Miner].blocks).index
    /\ arg[Miner].previous_hash # Last(entry[Miner].blocks).hash

\* C3: commit is atomic for observers.  Whenever chain_lock is free the live
\* UTXO set equals UTXOSet.rebuild(chain); and the copy the miner took under
\* the lock is the rebuild of the chain up to the tail it read with it.
C3_CommitAtomicForObservers ==
    /\ chain_lock = NoThread => utxos = rebuild(blocks)
    /\ last_block_copy # NoBlock =>
          /\ last_block_copy.index + 1 <= Len(blocks)
          /\ snap = rebuild(SubSeq(blocks, 1, last_block_copy.index + 1))

\* the lock is free, the chain has grown past the miner's snapshot, and the
\* committed blocks have spent and created outputs
C3_Witness ==
    /\ chain_lock = NoThread
    /\ Len(blocks) = MaxBlocks
    /\ last_block_copy # NoBlock
    /\ last_block_copy # Last(blocks)
    /\ \E i \in 1..Len(blocks) : Len(blocks[i].transactions) > 1

\* the keys created by the outputs of the committed transactions
CreatedKeys(blocks_) ==
    LET txs == CommittedTxs(blocks_)
    IN  UNION {{<<txs[j].transaction_id, i - 1>> : i \in 1..Len(txs[j].outputs)}
                  : j \in 1..Len(txs)}

\* the keys referenced by the inputs of the committed non-coinbase transactions
ReferencedKeys(blocks_) ==
    LET txs == CommittedTxs(blocks_)
    IN  UNION {{<<txs[j].inputs[i].transaction_id, txs[j].inputs[i].output_index>>
                   : i \in 1..Len(txs[j].inputs)}
                  : j \in {k \in 1..Len(txs) : ~is_coinbase(txs[k])}}

\* C4: UTXO existence.  Whenever no add_block is in progress, a key
\* (tx_id, output_index) is in the UTXO set if and only if it is an output of
\* a committed transaction and no non-coinbase input of a committed
\* transaction references it.
C4_UtxoExistence ==
    chain_lock = NoThread =>
        DOMAIN utxos = CreatedKeys(blocks) \ ReferencedKeys(blocks)

\* the amounts of the UTXOs the inputs of tx resolve to in utxos_
InputValue(utxos_, tx) ==
    SumSeq([i \in 1..Len(tx.inputs) |->
               IF HasUtxo(utxos_, tx.inputs[i].transaction_id, tx.inputs[i].output_index)
               THEN utxos_[<<tx.inputs[i].transaction_id, tx.inputs[i].output_index>>].amount
               ELSE 0])

\* every non-coinbase transaction of txs from position i on takes in at least
\* what it pays out, in the UTXO state just before it
RECURSIVE TxsConserve(_, _, _)
TxsConserve(utxos_, txs, i) ==
    IF i > Len(txs) THEN TRUE
    ELSE IF is_coinbase(txs[i])
         THEN TxsConserve(AddOutputs(utxos_, txs[i], 1), txs, i + 1)
         ELSE /\ InputValue(utxos_, txs[i]) >= TotalOutputValue(txs[i])
              /\ TxsConserve(SpendAndAdd(utxos_, txs[i]), txs, i + 1)

\* C5: value conservation.  For every non-coinbase transaction of every block
\* of the chain, the sum of the amounts of the UTXOs its inputs resolve to,
\* in the UTXO state just before that transaction, is greater than or equal
\* to the sum of its output amounts.
C5_ValueConservation == TxsConserve(EmptyUtxos, CommittedTxs(blocks), 1)

OneCoinbaseFirst(block) ==
    /\ block.transactions # <<>>
    /\ is_coinbase(block.transactions[1])
    /\ \A i \in 2..Len(block.transactions) : ~is_coinbase(block.transactions[i])

\* C6: every block of the chain holds exactly one coinbase transaction, at
\* position 0; and add_block does not accept, and leaves the chain as it was
\* for, a block with no transactions, no coinbase, a coinbase at another
\* position, or more than one coinbase.
C6_OneCoinbaseFirst ==
    /\ \A i \in 1..Len(blocks) : OneCoinbaseFirst(blocks[i])
    /\ \A t \in Threads :
          pc[t] = "returned" /\ ~OneCoinbaseFirst(arg[t])
          => ret[t] = "False" /\ blocks = entry[t].blocks

\* add_block has returned for a linked, well-hashed block made of one valid
\* spend and no coinbase
C6_Witness ==
    /\ pc[Peer] = "returned"
    /\ LinkOk(entry[Peer].blocks, arg[Peer])
    /\ validate_block_header(difficulty, arg[Peer])
    /\ Len(arg[Peer].transactions) = 1
    /\ ~is_coinbase(arg[Peer].transactions[1])
    /\ validate_transaction(arg[Peer].transactions[1], entry[Peer].utxos).result = "ok"

\* C7: proof of work.  For every block of the chain, recomputing the header
\* hash from (index, timestamp, previous_hash, merkle_root, nonce) gives
\* block.hash, and block.hash starts with `difficulty` zeros of the node's
\* consensus.
C7_ProofOfWork ==
    \A i \in 1..Len(blocks) : validate_block_header(difficulty, blocks[i])

\* what add_block checks of block against the chain and UTXO set it is given
PassesValidation(blocks_, utxos_, difficulty_, block) ==
    /\ LinkOk(blocks_, block)
    /\ validate_block_header(difficulty_, block)
    /\ block.merkle_root = calculate_merkle_root(
           [i \in 1..Len(block.transactions) |-> block.transactions[i].transaction_id])
    /\ OneCoinbaseFirst(block)
    /\ \A i \in 2..Len(block.transactions) :
          validate_transaction(
              block.transactions[i],
              UpdateFromTxs(utxos_, SubSeq(block.transactions, 2, i - 1), 1)).result = "ok"

C8_State ==
    /\ pc[Miner] \in {"read_tail", "build", "enter"} => chain_lock # Miner
    /\ pc[Miner] = "returned" =>
          LET fresh == PassesValidation(entry[Miner].blocks, entry[Miner].utxos,
                                        difficulty, arg[Miner])
          IN  /\ ret[Miner] = "True" => fresh
              /\ ~fresh => /\ ret[Miner] = "False"
                           /\ blocks = entry[Miner].blocks
                           /\ utxos = entry[Miner].utxos
    /\ \A m \in sent :
          m.type = "NEW_BLOCK" /\ m.by = Miner
          => \E i \in 1..Len(blocks) : blocks[i].hash = m.id
    /\ pc[Miner] = "after" => ENABLED MinerAfter

C8_Step ==
    pc[Miner] = "after" /\ ret[Miner] # "True" /\ pc'[Miner] # "after"
    => /\ restarts' = restarts => pc'[Miner] = "loop"
       /\ sent' \ sent = {}

\* C8: the miner/peer race is safe.  The miner does not hold chain_lock while
\* it reads the mempool, builds and searches the nonce; a block it commits
\* passes every check of add_block against the tail and the live UTXO set at
\* commit time; a candidate that does not is returned False with chain and
\* UTXO set unchanged, is never broadcast, and the miner goes on to its next
\* round.
C8_MinerRaceSafe == []C8_State /\ [][C8_Step]_vars

\* the miner's candidate links to the live tail but a transaction it took
\* from the mempool no longer validates against the live UTXO set
C8_Witness ==
    /\ pc[Miner] = "returned"
    /\ ret[Miner] = "False"
    /\ LinkOk(entry[Miner].blocks, arg[Miner])
    /\ Len(arg[Miner].transactions) > 1
    /\ snap # entry[Miner].utxos

\* C9: lock discipline.  Every read or mutation of the chain or the UTXO set
\* by a thread is made while that thread holds chain_lock, and the tail the
\* miner builds its candidate on is the one it read together with its UTXO
\* snapshot, in one lock acquisition.
C9_LockDiscipline ==
    /\ unlocked = {}
    /\ pc[Miner] \in {"build", "enter"} => mine_tail = last_block_copy

\* C10: the chain is append-only.  In every step the chain before is a prefix
\* of the chain after, so no committed block is removed, reordered, replaced
\* or changed in any field.
C10_AppendOnly == [][IsPrefix(blocks, blocks')]_vars

\* the chain has grown to its bound, the node having been constructed again
\* on its chain file in between
C10_Witness ==
    /\ Len(blocks) = MaxBlocks
    /\ restarts > 0
    /\ \E i \in 1..Len(blocks) : Len(blocks[i].transactions) > 1

\* C11: gossip excludes the sender.  Every NEW_TRANSACTION or NEW_BLOCK the
\* node re-broadcasts on accepting it from the connected peer SenderAddr is
\* sent to every other connected peer and is not sent back to SenderAddr.
C11_GossipExcludesSender ==
    \A m \in sent : m.by = Peer => m.to = Connections \ {SenderAddr}

\* C12: gossip de-duplication.  The node calls broadcast at most once for any
\* given block and at most once for any given transaction: a NEW_BLOCK or
\* NEW_TRANSACTION carrying data it accepted earlier is rejected and not
\* broadcast again.
C12_GossipDeduplicated == \A m \in sent : m.n = 1

\* C13: mempool admission.  add_transaction(tx) returns False and leaves the
\* mempool unchanged if the id of tx is pending already, if the mempool holds
\* max_size entries, if tx is coinbase, if it has no inputs or no outputs, or
\* if an input's unlock script lacks signature/public_key or its signature
\* does not verify over get_data_to_sign(); otherwise it returns True and the
\* mempool gains exactly tx.  The UTXO set plays no part in the outcome.
C13_MempoolAdmission ==
    pc = "add_transaction" =>
        LET tx == arg.tx
            before == entry.pending
            rejected ==
                \/ \E i \in 1..Len(before) :
                      before[i].transaction_id = tx.transaction_id
                \/ Len(before) >= ScMaxMempool
                \/ is_coinbase(tx)
                \/ Len(tx.inputs) = 0
                \/ Len(tx.outputs) = 0
                \/ \E i \in 1..Len(tx.inputs) :
                      \/ tx.inputs[i].unlock_script.kind # "sig"
                      \/ ~verify(tx.inputs[i].unlock_script.public_key,
                                 get_data_to_sign(tx),
                                 tx.inputs[i].unlock_script.signature)
        IN  /\ rejected => ret.tx = "False" /\ pending = before
            /\ ~rejected => ret.tx = "True" /\ pending = Append(before, tx)
            /\ utxos = entry.utxos

\* a transaction whose input is not in the UTXO set was admitted, and one
\* whose input is in the UTXO set was turned away for its signature
C13_Witness_AdmittedWithoutUtxo ==
    /\ pc = "add_transaction"
    /\ ret.tx = "True"
    /\ pending = Append(entry.pending, arg.tx)
    /\ \E i \in 1..Len(arg.tx.inputs) :
          <<arg.tx.inputs[i].transaction_id, arg.tx.inputs[i].output_index>>
              \notin DOMAIN utxos

C13_Witness_RejectedForSignature ==
    /\ pc = "add_transaction"
    /\ ret.tx = "False"
    /\ Len(entry.pending) < ScMaxMempool
    /\ ~is_coinbase(arg.tx)
    /\ \A i \in 1..Len(arg.tx.inputs) :
          /\ arg.tx.inputs[i].unlock_script.kind = "sig"
          /\ <<arg.tx.inputs[i].transaction_id, arg.tx.inputs[i].output_index>>
                 \in DOMAIN utxos

\* C14: mempool bound under concurrency.  Under any interleaving of
\* add_transaction calls from a peer-reader thread and a control thread with
\* the miner's reads and removals, the number of pending transactions never
\* exceeds max_size.
C14_MempoolBounded == Len(pending) <= MpMaxSize

C15_Witness_CommittedOther ==
    \E t \in Threads :
        /\ pc[t] = "after"
        /\ ret[t] = "True"
        /\ \E i \in 1..Len(pending) :
              pending[i].transaction_id \notin NonCoinbaseIds(arg[t])

\* C16: mine_new_block has no effect on shared state.  The steps of
\* mine_new_block (reading the tail, then selecting and building) leave the
\* mempool, the UTXO set it was passed, the node's UTXO set and chain.blocks
\* exactly as they were.
C16_MineNewBlockFrame ==
    [][(/\ pc[Miner] \in {"read_tail", "build"}
        /\ pc'[Miner] # pc[Miner]
        /\ restarts' = restarts)
       => /\ pending' = pending
          /\ snap' = snap
          /\ utxos' = utxos
          /\ blocks' = blocks]_vars

\* mine_new_block has returned a block with a mempool transaction: the
\* transaction is still pending and its input is still in the passed set
C16_Witness_SelectedStillPending ==
    /\ pc[Miner] = "enter"
    /\ \E j \in 2..Len(arg[Miner].transactions) :
          LET tx == arg[Miner].transactions[j]
          IN  /\ InMempool(pending, tx.transaction_id)
              /\ <<tx.inputs[1].transaction_id, tx.inputs[1].output_index>>
                     \in DOMAIN snap

\* the pending transactions admitted among the first n, in mempool order:
\* each one that passes validate_transaction against the snapshot after the
\* effects of those admitted before it, with that snapshot and their fees
RECURSIVE AdmittedUpTo(_, _, _)
AdmittedUpTo(p, snapshot, n) ==
    IF n = 0 THEN [txs |-> <<>>, utxos |-> snapshot, fees |-> 0]
    ELSE LET before == AdmittedUpTo(p, snapshot, n - 1)
             v == validate_transaction(p[n], before.utxos)
         IN  IF v.result = "ok"
             THEN [txs |-> Append(before.txs, p[n]),
                   utxos |-> SpendAndAdd(before.utxos, p[n]),
                   fees |-> before.fees + v.fee]
             ELSE before

C17_Witness_DependentAdmitted ==
    /\ pc = "mined"
    /\ Len(entry.pending) = 2
    /\ entry.pending[2].inputs[1].transaction_id = entry.pending[1].transaction_id
    /\ Len(arg.block.transactions) = 3

\* C18: a mined block commits when nothing changed.  If mine_new_block ran
\* on the current tail and a snapshot of the current UTXO set, and neither
\* changed before the commit, add_block accepts the block and the chain grows
\* by one; when the mempool was empty, the balance of the miner's address
\* grows by exactly BLOCK_REWARD.
C18_MinedBlockCommits ==
    pc = "committed" =>
        /\ ret.block = "True"
        /\ Len(blocks) = Len(entry.blocks) + 1
        /\ Last(blocks) = arg.block
        /\ entry.pending = <<>> =>
              get_balance(utxos, Address(ScMiner))
                  = get_balance(entry.utxos, Address(ScMiner)) + BLOCK_REWARD * Coin

\* the part of C18 about acceptance
C18_MinedBlockAccepted ==
    pc = "committed" =>
        /\ ret.block = "True"
        /\ Len(blocks) = Len(entry.blocks) + 1
        /\ Last(blocks) = arg.block

\* C19: end-to-end transfer.  Wallet A, holding at least a + f, creates a
\* transaction paying a to B with fee f; the mempool admits it; a block mined
\* by another address M that contains it (and no other mempool transaction)
\* is committed.  Then the balance of A has decreased by exactly a + f, the
\* balance of B has increased by exactly a, the balance of M has increased by
\* exactly BLOCK_REWARD + f, and the transaction is no longer pending.
C19_EndToEndTransfer ==
    (/\ pc = "committed"
     /\ ret.block = "True"
     /\ arg.request # NoRequest
     /\ Len(arg.block.transactions) = 2
     /\ arg.block.transactions[2] = arg.request.tx)
    => LET A == Address(arg.request.sender)
           B == arg.request.recipient
           M == Address(ScMiner)
           a == arg.request.amount
           f == arg.request.fee
       IN  /\ get_balance(utxos, A) = get_balance(entry.utxos, A) - (a + f)
           /\ get_balance(utxos, B) = get_balance(entry.utxos, B) + a
           /\ get_balance(utxos, M)
                  = get_balance(entry.utxos, M) + BLOCK_REWARD * Coin + f
           /\ ~InMempool(pending, arg.request.tx.transaction_id)

\* the parts of C19 about the recipient and the mempool
C19_RecipientPaidAndEvicted ==
    (/\ pc = "committed"
     /\ ret.block = "True"
     /\ arg.request # NoRequest
     /\ Len(arg.block.transactions) = 2
     /\ arg.block.transactions[2] = arg.request.tx)
    => /\ get_balance(utxos, arg.request.recipient)
              = get_balance(entry.utxos, arg.request.recipient) + arg.request.amount
       /\ ~InMempool(pending, arg.request.tx.transaction_id)

\* the sender's part of C19 fails when the change is one quantum
C19_SenderPaysAmountAndFee ==
    (/\ pc = "committed"
     /\ ret.block = "True"
     /\ arg.request # NoRequest
     /\ Len(arg.block.transactions) = 2
     /\ arg.block.transactions[2] = arg.request.tx)
    => get_balance(utxos, Address(arg.request.sender))
           = get_balance(entry.utxos, Address(arg.request.sender))
             - (arg.request.amount + arg.request.fee)

\* the miner's part of C19, for requests whose change is more than one
\* quantum, fails when the coinbase is committed already
C19_MinerPaidRewardAndFee ==
    (/\ pc = "committed"
     /\ ret.block = "True"
     /\ arg.request # NoRequest
     /\ Len(arg.request.tx.outputs) = 2
     /\ Len(arg.block.transactions) = 2
     /\ arg.block.transactions[2] = arg.request.tx)
    => /\ get_balance(utxos, Address(arg.request.sender))
              = get_balance(entry.utxos, Address(arg.request.sender))
                - (arg.request.amount + arg.request.fee)
       /\ get_balance(utxos, Address(ScMiner))
              = get_balance(entry.utxos, Address(ScMiner))
                + BLOCK_REWARD * Coin + arg.request.fee

\* C20: double-spend across blocks is rejected at the chain, not at the
\* mempool.  For a correctly signed transaction with an input that references
\* a key consumed by a committed transaction: add_block does not accept a
\* block containing it, and mine_new_block does not return a candidate
\* containing it.  (Its admission to the mempool is stated in
\* C20_RejectedWhileAbsent.)
C20_DoubleSpendRejectedAtChain ==
    [][LET Reuses(tx, blocks_) ==
               /\ ~is_coinbase(tx)
               /\ \A i \in 1..Len(tx.inputs) :
                      /\ tx.inputs[i].unlock_script.kind = "sig"
                      /\ verify(tx.inputs[i].unlock_script.public_key,
                                get_data_to_sign(tx),
                                tx.inputs[i].unlock_script.signature)
               /\ \E i \in 1..Len(tx.inputs) :
                      <<tx.inputs[i].transaction_id, tx.inputs[i].output_index>>
                          \in ReferencedKeys(blocks_)
           Holds(block, blocks_) ==
               \E j \in 1..Len(block.transactions) :
                   Reuses(block.transactions[j], blocks_)
       IN  /\ \A t \in Threads :
                 (pc[t] = "add_block" /\ pc'[t] = "append")
                     => ~Holds(arg[t], blocks)
           /\ (pc[Miner] = "build" /\ pc'[Miner] = "enter")
                     => ~Holds(arg'[Miner], blocks)]_vars

\* What holds of C20: while the consumed key is not in the UTXO set, such a
\* transaction is admitted by Mempool.add_transaction when it is not pending
\* already and the mempool is not full; add_block returns False, with chain
\* and UTXO set unchanged, for a block containing it; mine_new_block does not
\* put it in a candidate.
C20_RejectedWhileAbsent ==
    LET consumed == ConsumedKeys(entry.blocks, entry.utxos)
        Reuses(tx) ==
            /\ ~is_coinbase(tx)
            /\ \E i \in 1..Len(tx.inputs) :
                  <<tx.inputs[i].transaction_id, tx.inputs[i].output_index>>
                      \in consumed
        Signed(tx) ==
            \A i \in 1..Len(tx.inputs) :
                /\ tx.inputs[i].unlock_script.kind = "sig"
                /\ verify(tx.inputs[i].unlock_script.public_key,
                          get_data_to_sign(tx),
                          tx.inputs[i].unlock_script.signature)
        Holds(block) ==
            \E j \in 1..Len(block.transactions) :
                Reuses(block.transactions[j]) /\ Signed(block.transactions[j])
    IN  /\ (/\ pc = "add_transaction"
            /\ Reuses(arg.tx)
            /\ Signed(arg.tx)
            /\ ~InMempool(entry.pending, arg.tx.transaction_id)
            /\ Len(entry.pending) < ScMaxMempool)
           => /\ ret.tx = "True"
              /\ InMempool(pending, arg.tx.transaction_id)
        /\ (pc = "add_block" /\ Holds(arg.block))
           => /\ ret.block = "False"
              /\ blocks = entry.blocks
              /\ utxos = entry.utxos
        /\ pc \in {"mined", "committed"} => ~Holds(arg.block)

\* the mempool has admitted a transaction that reuses a consumed output
C20_Witness_Admitted ==
    /\ pc = "add_transaction"
    /\ ret.tx = "True"
    /\ <<arg.tx.inputs[1].transaction_id, arg.tx.inputs[1].output_index>>
           \in ConsumedKeys(blocks, utxos)

\* add_block has turned away a received block that holds such a transaction
C20_Witness_BlockRejected ==
    /\ pc = "add_block"
    /\ ret.block = "False"
    /\ Len(arg.block.transactions) = 2
    /\ <<arg.block.transactions[2].inputs[1].transaction_id,
         arg.block.transactions[2].inputs[1].output_index>>
           \in ConsumedKeys(blocks, utxos)

\* mine_new_block has left such a pending transaction out of its candidate
C20_Witness_NotMined ==
    /\ pc = "mined"
    /\ \E i \in 1..Len(pending) :
          <<pending[i].inputs[1].transaction_id, pending[i].inputs[1].output_index>>
              \in ConsumedKeys(blocks, utxos)

\* C22: coinbase identities are unique.  In every chain reachable by
\* add_block the coinbase transactions of two different blocks have different
\* transaction ids, and no commit writes an output under a key that is in the
\* UTXO set already.
C22_CoinbaseIdsUnique ==
    /\ \A i, j \in 1..Len(blocks) :
          i # j => blocks[i].transactions[1].transaction_id
                       # blocks[j].transactions[1].transaction_id
    /\ (pc \in {"committed", "add_block"} /\ ret.block = "True")
           => <<arg.block.transactions[1].transaction_id, 0>>
                  \notin DOMAIN entry.utxos

(***************************************************************************)
(* Chain.validate_transaction and Wallet.create_transaction as functions   *)
(* of their arguments: a UTXO set is drawn, and each call is applied to it *)
(* and returns before the next one.  Amounts need not be whole quanta: the *)
(* outputs of a committed transaction carry whatever amounts its sender    *)
(* wrote (chain.py:186-199 rounds only the difference).                    *)
(***************************************************************************)
\* the number of keys a drawn UTXO set may hold
WlMaxUtxos == 2

\* the wallet that creates and signs, and the one it pays
WlOwner == ScSender
WlOther == WlOwner + 1

WlKeys == {<<Sha256(<<n>>), 0>> : n \in 1..WlMaxUtxos}
WlMissingKey == <<Sha256(<<0>>), 0>>
WlOutputs ==
    {TransactionOutput(a, Address(k)) :
        a \in {Quantum, 2 * Quantum + 1, 4 * Quantum}, k \in {WlOwner, WlOther}}
WlUtxoSets == UNION {[S -> WlOutputs] : S \in SUBSET WlKeys}

\* a transaction spending keys into outs, every input signed by signer over
\* `signed` ("tx": the transaction's own data) and carrying public_key
WlSpend(keys, outs, signer, signed, public_key) ==
    LET refs == [i \in 1..Len(keys) |->
                    TransactionInput(keys[i][1], keys[i][2], EmptyScript)]
        message == IF signed = "tx"
                   THEN get_data_to_sign(Transaction(refs, outs, <<>>))
                   ELSE <<>>
    IN  Transaction([i \in 1..Len(keys) |->
                        TransactionInput(keys[i][1], keys[i][2],
                                         SigScript(sign(signer, message), public_key))],
                    outs, <<>>)

\* the sum of the amounts the keys resolve to in utxos_
WlHeld(utxos_, keys) ==
    SumSeq([i \in 1..Len(keys) |->
               IF keys[i] \in DOMAIN utxos_ THEN utxos_[keys[i]].amount ELSE 0])

\* the input lists: one key, two different keys, the same key twice, a key
\* that is in no UTXO set
WlInputLists ==
    {<<k>> : k \in WlKeys \cup {WlMissingKey}}
        \cup {<<k, l>> : k \in WlKeys, l \in WlKeys}

\* the transactions handed to validate_transaction: spends by the owner with
\* outputs around the held value, and one family per check they are to fail
WlTransactions(utxos_) ==
    UNION {
        LET held == WlHeld(utxos_, keys)
            to == Address(WlOther)
            pay(a) == <<TransactionOutput(a, to)>>
        IN  {WlSpend(keys, pay(a), WlOwner, "tx", PublicKey(WlOwner)) :
                a \in {held - Quantum, held - 1, held, held + 1, held + 2,
                       held + Quantum, -Quantum}}
            \cup {WlSpend(keys, <<TransactionOutput(Quantum, to),
                                  TransactionOutput(held - Quantum, Address(WlOwner))>>,
                          WlOwner, "tx", PublicKey(WlOwner)),
                  WlSpend(keys, pay(held), WlOwner, "other", PublicKey(WlOwner)),
                  WlSpend(keys, pay(held), WlOther, "tx", PublicKey(WlOther)),
                  WlSpend(keys, pay(held), WlOwner, "tx", BadHex),
                  Transaction([i \in 1..Len(keys) |->
                                  TransactionInput(keys[i][1], keys[i][2], EmptyScript)],
                              pay(held), <<>>)}
        : keys \in WlInputLists}
    \cup {PeerCoinbase(1, BLOCK_REWARD * Coin, Address(WlOwner), <<>>)}

\* the requests made of the owner's wallet: [amount, fee]
WlRequests ==
    [amount : {Quantum, Quantum + 2, 3 * Quantum}, fee : {0, 1, Quantum}]

WlNoArg == [tx |-> NoTransaction, amount |-> 0, fee |-> 0]
WlNoRet == [result |-> "none", fee |-> 0, tx |-> NoTransaction]

WlInit ==
    /\ difficulty = ScDifficulty
    /\ node_key = WlOwner
    /\ blocks = <<>>
    /\ utxos \in WlUtxoSets
    /\ pending = <<>>
    /\ chain_lock = NoThread
    /\ pc = "ready"
    /\ arg = WlNoArg
    /\ ret = WlNoRet
    /\ entry = NoEntry
    /\ snap = EmptyUtxos
    /\ last_block_copy = NoBlock
    /\ mine_tail = NoBlock
    /\ unlocked = {}
    /\ sent = {}
    /\ restarts = 0
    /\ heap = <<>>
    /\ p2p = NoP2P
    /\ stop_mining_flag = FALSE
    /\ node = NoNode

WlUnchanged ==
    UNCHANGED <<difficulty, node_key, blocks, utxos, pending, chain_lock, snap,
                last_block_copy, mine_tail, unlocked, sent, restarts, heap, p2p,
                stop_mining_flag, node>>

\* chain.validate_transaction(tx, utxo_set): it reads utxo_set through get_utxo
\* only (chain.py:158)
WlValidateTransaction ==
    /\ pc = "ready"
    /\ \E tx \in WlTransactions(utxos) :
          LET r == validate_transaction(tx, utxos)
          IN  /\ arg' = [WlNoArg EXCEPT !.tx = tx]
              /\ ret' = [WlNoRet EXCEPT !.result = r.result, !.fee = r.fee]
    /\ entry' = [NoEntry EXCEPT !.utxos = utxos]
    /\ pc' = "validate_transaction"
    /\ WlUnchanged

\* wallet.create_transaction(recipient_address, amount, fee, utxo_set): it
\* reads utxo_set through find_utxos_for_address only (wallet.py:34)
WlCreateTransaction ==
    /\ pc = "ready"
    /\ \E request \in WlRequests :
          /\ arg' = [WlNoArg EXCEPT !.amount = request.amount, !.fee = request.fee]
          /\ ret' = [WlNoRet EXCEPT
                        !.result = "returned",
                        !.tx = create_transaction(WlOwner, Address(WlOther),
                                                  request.amount, request.fee, utxos)]
    /\ entry' = [NoEntry EXCEPT !.utxos = utxos]
    /\ pc' = "create_transaction"
    /\ WlUnchanged

WlReturn ==
    /\ pc \in {"validate_transaction", "create_transaction"}
    /\ pc' = "ready"
    /\ arg' = WlNoArg
    /\ ret' = WlNoRet
    /\ entry' = NoEntry
    /\ WlUnchanged

WlNext ==
    \/ WlValidateTransaction
    \/ WlCreateTransaction
    \/ WlReturn

WalletSpec == WlInit /\ [][WlNext]_vars

\* the conditions under which validate_transaction is to return (True, fee)
WlAcceptable(tx, utxos_) ==
    LET key(i) == <<tx.inputs[i].transaction_id, tx.inputs[i].output_index>>
        keys == [i \in 1..Len(tx.inputs) |-> key(i)]
    IN  /\ ~is_coinbase(tx)
        /\ Len(tx.inputs) >= 1
        /\ Len(tx.outputs) >= 1
        /\ \A i, j \in 1..Len(tx.inputs) : i # j => key(i) # key(j)
        /\ \A i \in 1..Len(tx.inputs) :
              /\ key(i) \in DOMAIN utxos_
              /\ tx.inputs[i].unlock_script.kind = "sig"
              /\ ~AddressRaises(tx.inputs[i].unlock_script.public_key)
              /\ public_key_to_address(tx.inputs[i].unlock_script.public_key)
                     = utxos_[key(i)].lock_script
              /\ verify(tx.inputs[i].unlock_script.public_key, get_data_to_sign(tx),
                        tx.inputs[i].unlock_script.signature)
        /\ \A i \in 1..Len(tx.outputs) : tx.outputs[i].amount >= 0
        /\ WlHeld(utxos_, keys) - TotalOutputValue(tx) >= 0

\* C29: validate_transaction(tx, utxo) returns (True, fee) exactly when tx is
\* not a coinbase, has an input and an output, references no entry twice,
\* references only entries of utxo, unlocks each with the owner's key and a
\* signature over its data, has no negative output and pays out no more than
\* it takes in; the fee returned is inputs minus outputs; otherwise it
\* returns (False, 0); utxo is left as it was.
C29_ValidateTransaction ==
    pc = "validate_transaction"
        => LET tx == arg.tx
               keys == [i \in 1..Len(tx.inputs) |->
                           <<tx.inputs[i].transaction_id, tx.inputs[i].output_index>>]
           IN  /\ (ret.result = "ok") <=> WlAcceptable(tx, entry.utxos)
               /\ ret.result = "ok"
                      => ret.fee = WlHeld(entry.utxos, keys) - TotalOutputValue(tx)
               /\ ret.result # "ok" => ret.result = "False" /\ ret.fee = 0
               /\ utxos = entry.utxos

\* C30: create_transaction(recipient, amount, fee, utxo) with amount > 0 and
\* fee >= 0 returns None when the wallet's outputs in utxo hold less than
\* amount + fee; otherwise its inputs are distinct outputs of the wallet, the
\* smallest first, up to the first at which their sum reaches amount + fee;
\* its outputs are amount to the recipient and the change to the wallet when
\* the change is above the dust threshold; validate_transaction accepts it
\* against utxo with the requested fee plus the dropped dust; utxo is left as
\* it was.
C30_CreateTransaction ==
    pc = "create_transaction"
        => LET address == Address(WlOwner)
               owned == OwnedBy(entry.utxos, address)
               sorted == SortedUtxoKeys(entry.utxos, owned)
               funds == WlHeld(entry.utxos, sorted)
               target == arg.amount + arg.fee
               tx == ret.tx
               n == Len(tx.inputs)
               key(i) == <<tx.inputs[i].transaction_id, tx.inputs[i].output_index>>
               keys == [i \in 1..n |-> key(i)]
               held == WlHeld(entry.utxos, keys)
               change == held - target
               checked == validate_transaction(tx, entry.utxos)
           IN  /\ funds < target => tx = NoTransaction
               /\ funds >= target
                    => /\ tx # NoTransaction
                       /\ \A i \in 1..n : key(i) \in owned
                       /\ \A i, j \in 1..n : i # j => key(i) # key(j)
                       /\ \A i \in 1..n : \A k \in owned \ {key(j) : j \in 1..i} :
                             entry.utxos[key(i)].amount <= entry.utxos[k].amount
                       /\ held >= target
                       /\ WlHeld(entry.utxos, SubSeq(keys, 1, n - 1)) < target
                       /\ tx.outputs
                            = <<TransactionOutput(arg.amount, Address(WlOther))>>
                                \o (IF change > Quantum
                                    THEN <<TransactionOutput(change, address)>>
                                    ELSE <<>>)
                       /\ checked.result = "ok"
                       /\ checked.fee
                            = arg.fee + (IF change > Quantum THEN 0 ELSE change)
               /\ utxos = entry.utxos

(***************************************************************************)
(* UTXOSet objects and the TransactionOutput objects they hold.  A dict    *)
(* holds references: utxos and snap map a key to the identity of an output *)
(* object, heap maps the identity to the object's fields.  U is the node's *)
(* utxo_set (utxos), S what U.get_copy() returned (snap; node.py:106,      *)
(* miner.py:29).                                                           *)
(***************************************************************************)
\* the number of TransactionOutput objects ever allocated
SnMaxObjects == 5

SnKeys == {<<Sha256(<<1>>), 0>>, <<Sha256(<<1>>), 1>>}
SnOutputs == {TransactionOutput(a, Address(ScSender)) : a \in {Quantum, 2 * Quantum}}

\* what a UTXOSet holds: the fields of the object under each key
Contents(heap_, utxos_) == [k \in DOMAIN utxos_ |-> heap_[utxos_[k]]]

\* a dict holding the same objects (copy.copy)
get_copy_shallow(heap_, utxos_) == [heap |-> heap_, utxos |-> utxos_]

\* copy.deepcopy(self.utxos): a new dict holding a new object for each object
\* of the old one.  [heap, utxos]: the heap after the copy and the new dict
get_copy(heap_, utxos_) ==
    LET olds == {utxos_[k] : k \in DOMAIN utxos_}
        \* the objects in the order of their identities
        order == SortedUtxoKeys([o \in olds |-> [amount |-> o]], olds)
        new(o) == Len(heap_) + CHOOSE i \in 1..Len(order) : order[i] = o
    IN  [heap |-> heap_ \o [i \in 1..Len(order) |-> heap_[order[i]]],
         utxos |-> [k \in DOMAIN utxos_ |-> new(utxos_[k])]]

SnInit ==
    /\ difficulty = ScDifficulty
    /\ node_key = ScSender
    /\ blocks = <<>>
    /\ utxos = EmptyUtxos
    /\ pending = <<>>
    /\ chain_lock = NoThread
    /\ pc = [op |-> "init", on |-> "U"]
    /\ arg = NoCall
    /\ ret = "none"
    /\ entry = NoEntry
    /\ snap = EmptyUtxos
    /\ last_block_copy = NoBlock
    /\ mine_tail = NoBlock
    /\ unlocked = {}
    /\ sent = {}
    /\ restarts = 0
    /\ heap = <<>>
    /\ p2p = NoP2P
    /\ stop_mining_flag = FALSE
    /\ node = NoNode

SnUnchanged ==
    UNCHANGED <<difficulty, node_key, blocks, pending, chain_lock, arg, entry,
                last_block_copy, mine_tail, unlocked, sent, restarts, p2p,
                stop_mining_flag, node>>

\* S = U.get_copy()
SnGetCopy ==
    /\ Len(heap) + Cardinality(DOMAIN utxos) <= SnMaxObjects
    /\ LET copy == get_copy(heap, utxos)
       IN  /\ heap' = copy.heap
           /\ snap' = copy.utxos
    /\ ret' = "snap"
    /\ pc' = [op |-> "get_copy", on |-> "U"]
    /\ UNCHANGED utxos
    /\ SnUnchanged

\* U.add_utxo(tx_id, index, output) with an output object of the caller's
SnAddU ==
    /\ Len(heap) < SnMaxObjects
    /\ \E k \in SnKeys, out \in SnOutputs :
          /\ heap' = Append(heap, out)
          /\ utxos' = [x \in DOMAIN utxos \cup {k} |->
                          IF x = k THEN Len(heap) + 1 ELSE utxos[x]]
    /\ pc' = [op |-> "add_utxo", on |-> "U"]
    /\ UNCHANGED <<snap, ret>>
    /\ SnUnchanged

\* U.remove_utxo(tx_id, index)
SnRemoveU ==
    /\ \E k \in DOMAIN utxos : utxos' = [x \in DOMAIN utxos \ {k} |-> utxos[x]]
    /\ pc' = [op |-> "remove_utxo", on |-> "U"]
    /\ UNCHANGED <<heap, snap, ret>>
    /\ SnUnchanged

\* U.get_utxo(tx_id, index).amount = a
SnMutateU ==
    /\ \E k \in DOMAIN utxos, out \in SnOutputs :
          /\ heap[utxos[k]] # out
          /\ heap' = [heap EXCEPT ![utxos[k]] = out]
    /\ pc' = [op |-> "mutate", on |-> "U"]
    /\ UNCHANGED <<utxos, snap, ret>>
    /\ SnUnchanged

\* S.add_utxo(tx_id, index, output)
SnAddS ==
    /\ ret = "snap"
    /\ Len(heap) < SnMaxObjects
    /\ \E k \in SnKeys, out \in SnOutputs :
          /\ heap' = Append(heap, out)
          /\ snap' = [x \in DOMAIN snap \cup {k} |->
                         IF x = k THEN Len(heap) + 1 ELSE snap[x]]
    /\ pc' = [op |-> "add_utxo", on |-> "S"]
    /\ UNCHANGED <<utxos, ret>>
    /\ SnUnchanged

\* S.remove_utxo(tx_id, index)
SnRemoveS ==
    /\ ret = "snap"
    /\ \E k \in DOMAIN snap : snap' = [x \in DOMAIN snap \ {k} |-> snap[x]]
    /\ pc' = [op |-> "remove_utxo", on |-> "S"]
    /\ UNCHANGED <<heap, utxos, ret>>
    /\ SnUnchanged

\* S.get_utxo(tx_id, index).amount = a
SnMutateS ==
    /\ ret = "snap"
    /\ \E k \in DOMAIN snap, out \in SnOutputs :
          /\ heap[snap[k]] # out
          /\ heap' = [heap EXCEPT ![snap[k]] = out]
    /\ pc' = [op |-> "mutate", on |-> "S"]
    /\ UNCHANGED <<utxos, snap, ret>>
    /\ SnUnchanged

SnNext ==
    \/ SnGetCopy
    \/ SnAddU
    \/ SnRemoveU
    \/ SnMutateU
    \/ SnAddS
    \/ SnRemoveS
    \/ SnMutateS

SnapshotSpec == SnInit /\ [][SnNext]_vars

\* C21: snapshot independence.  After S = U.get_copy(), no add_utxo or
\* remove_utxo on S and no change to an output object held by S changes what
\* U holds, and nothing done to U afterwards changes what S holds; the copy
\* itself holds what U holds.
C21_SnapshotIndependence ==
    [][/\ pc'.on = "S" => Contents(heap', utxos') = Contents(heap, utxos)
       /\ (pc'.on = "U" /\ pc'.op # "get_copy" /\ ret = "snap")
              => Contents(heap', snap') = Contents(heap, snap)
       /\ pc'.op = "get_copy"
              => /\ Contents(heap', snap') = Contents(heap, utxos)
                 /\ Contents(heap', utxos') = Contents(heap, utxos)]_vars

\* an output object of S was changed while U holds an output under that key
C21_Witness_SnapshotMutated ==
    /\ pc = [op |-> "mutate", on |-> "S"]
    /\ \E k \in DOMAIN snap \cap DOMAIN utxos : heap[snap[k]] # heap[utxos[k]]

\* an output object of U was changed after the copy was taken
C21_Witness_OriginalMutated ==
    /\ pc = [op |-> "mutate", on |-> "U"]
    /\ ret = "snap"
    /\ \E k \in DOMAIN snap \cap DOMAIN utxos : heap[snap[k]] # heap[utxos[k]]

(***************************************************************************)
(* p2p.py: one started P2PNode and the threads that run its methods: two   *)
(* callers of connect_to_peer, the listener, a caller of send_message, the *)
(* caller of stop, and one reader (_handle_peer) per socket.  p2p.sockets  *)
(* holds every socket made, by identity: the address of its peer, whether  *)
(* it is open, and where its reader thread is; ret is what the last        *)
(* send_message returned ("failed": False after sendall raised).            *)
(***************************************************************************)
\* the number of sockets ever made
NetMaxSockets == 3

NetSelf == <<"10.0.0.1", "5000">>
NetPeers == {SenderAddr}
NetAddrs == NetPeers \cup {NetSelf}

Connector1 == "connect_to_peer 1"
Connector2 == "connect_to_peer 2"
Connectors == {Connector1, Connector2}
Listener == "_listen_for_connections"
Sender == "send_message"
Stopper == "stop"
NetThreads == Connectors \cup {Listener, Sender, Stopper}

NoSocket == 0
NoCallNet == [peer |-> <<>>, conn |-> NoSocket]

\* socket.socket() connected to peer, no reader thread yet
NewSocket(peer) == [peer |-> peer, open |-> TRUE, reader |-> "none"]

\* conn.close() on each socket of the set
CloseAll(sockets, conns) ==
    [i \in 1..Len(sockets) |->
        IF i \in conns THEN [sockets[i] EXCEPT !.open = FALSE] ELSE sockets[i]]

WithoutKey(f, k) == [x \in DOMAIN f \ {k} |-> f[x]]
WithKey(f, k, v) == [x \in DOMAIN f \cup {k} |-> IF x = k THEN v ELSE f[x]]

\* the body of _remove_peer between acquiring and releasing the lock
\* (p2p.py:243-251); conn = NoSocket stands for None
_remove_peer(p2p_, peer_addr, conn) ==
    LET removed_conn == IF peer_addr \in DOMAIN p2p_.connections
                        THEN p2p_.connections[peer_addr] ELSE NoSocket
        actual_conn_to_close == IF conn # NoSocket THEN conn ELSE removed_conn
    IN  [p2p_ EXCEPT !.peers = @ \ {peer_addr},
                     !.connections = WithoutKey(@, peer_addr),
                     !.sockets = CloseAll(@, {actual_conn_to_close} \ {NoSocket})]

NetInit ==
    /\ difficulty = ScDifficulty
    /\ node_key = ScSender
    /\ blocks = <<>>
    /\ utxos = EmptyUtxos
    /\ pending = <<>>
    /\ chain_lock = NoThread
    /\ pc = [t \in NetThreads |-> "idle"]
    /\ arg = [t \in NetThreads |-> NoCallNet]
    /\ ret = "none"
    /\ entry = NoEntry
    /\ snap = EmptyUtxos
    /\ last_block_copy = NoBlock
    /\ mine_tail = NoBlock
    /\ unlocked = {}
    /\ sent = {}
    /\ restarts = 0
    /\ heap = <<>>
    /\ p2p = [running |-> TRUE, server_socket |-> "open", peers |-> {},
              connections |-> <<>>, lock |-> NoThread, sockets |-> <<>>]
    /\ stop_mining_flag = FALSE
    /\ node = NoNode

NetUnchanged ==
    UNCHANGED <<difficulty, node_key, blocks, utxos, pending, chain_lock, entry,
                snap, last_block_copy, mine_tail, unlocked, sent, restarts, heap,
                stop_mining_flag, node>>

\* connect_to_peer up to the first release of the lock (p2p.py:154-159)
ConnectCheck(t) ==
    /\ pc[t] = "idle"
    /\ p2p.lock = NoThread
    /\ \E peer_addr \in NetAddrs :
          /\ p2p.running
          /\ peer_addr # NetSelf
          /\ peer_addr \notin DOMAIN p2p.connections
          /\ arg' = [arg EXCEPT ![t] = [peer |-> peer_addr, conn |-> NoSocket]]
    /\ pc' = [pc EXCEPT ![t] = "connecting"]
    /\ UNCHANGED <<p2p, ret>>
    /\ NetUnchanged

\* conn = socket.socket(); conn.connect(peer_addr) (p2p.py:163-166); a failed
\* connect closes conn and returns (p2p.py:179-187)
ConnectDial(t) ==
    /\ pc[t] = "connecting"
    /\ \/ /\ Len(p2p.sockets) < NetMaxSockets
          /\ p2p' = [p2p EXCEPT !.sockets = Append(@, NewSocket(arg[t].peer))]
          /\ arg' = [arg EXCEPT ![t].conn = Len(p2p.sockets) + 1]
          /\ pc' = [pc EXCEPT ![t] = "connected"]
       \/ /\ arg' = [arg EXCEPT ![t] = NoCallNet]
          /\ pc' = [pc EXCEPT ![t] = "idle"]
          /\ UNCHANGED p2p
    /\ UNCHANGED ret
    /\ NetUnchanged

\* the second locked block and the start of the handler thread
\* (p2p.py:169-175)
ConnectInsert(t) ==
    /\ pc[t] = "connected"
    /\ p2p.lock = NoThread
    /\ p2p' = [p2p EXCEPT !.peers = @ \cup {arg[t].peer},
                          !.connections = WithKey(@, arg[t].peer, arg[t].conn),
                          !.sockets[arg[t].conn].reader = "running"]
    /\ pc' = [pc EXCEPT ![t] = "send"]
    /\ UNCHANGED <<arg, ret>>
    /\ NetUnchanged

\* some thread of the node calls send_message(peer_addr, ...)
SendCall ==
    /\ pc[Sender] = "idle"
    /\ \E peer_addr \in NetPeers :
          arg' = [arg EXCEPT ![Sender] = [peer |-> peer_addr, conn |-> NoSocket]]
    /\ pc' = [pc EXCEPT ![Sender] = "send"]
    /\ UNCHANGED <<p2p, ret>>
    /\ NetUnchanged

\* send_message: "with self.lock" and conn = self.connections.get(peer_addr)
\* (p2p.py:193-194)
SendEnter(t) ==
    /\ pc[t] = "send"
    /\ p2p.lock = NoThread
    /\ p2p' = [p2p EXCEPT !.lock = t]
    /\ arg' = [arg EXCEPT ![t].conn = IF arg[t].peer \in DOMAIN p2p.connections
                                      THEN p2p.connections[arg[t].peer]
                                      ELSE NoSocket]
    /\ pc' = [pc EXCEPT ![t] = "sending"]
    /\ UNCHANGED ret
    /\ NetUnchanged

\* the failure path calling _remove_peer with acquire_lock left at True: the
\* thread waits for the lock it holds
SendBodyReacquire(t) ==
    /\ pc[t] = "sending"
    /\ \/ /\ arg[t].conn = NoSocket
          /\ ret' = "False"
          /\ p2p' = [p2p EXCEPT !.lock = NoThread]
          /\ pc' = [pc EXCEPT ![t] = "idle"]
       \/ /\ arg[t].conn # NoSocket
          /\ p2p.sockets[arg[t].conn].open
          /\ ret' = "True"
          /\ p2p' = [p2p EXCEPT !.lock = NoThread]
          /\ pc' = [pc EXCEPT ![t] = "idle"]
       \/ /\ arg[t].conn # NoSocket
          /\ ret' = "failed"
          /\ pc' = [pc EXCEPT ![t] = "lock.acquire"]
          /\ UNCHANGED p2p
    /\ arg' = [arg EXCEPT ![t] = NoCallNet]
    /\ NetUnchanged

\* the rest of send_message (p2p.py:195-213): nothing to send to, sendall
\* succeeds (the socket is open), or sendall raises (the socket was closed
\* here, or the connection is broken) and the peer is removed with
\* acquire_lock=False; the lock is released on return
SendBody(t) ==
    /\ pc[t] = "sending"
    /\ \/ /\ arg[t].conn = NoSocket
          /\ ret' = "False"
          /\ p2p' = [p2p EXCEPT !.lock = NoThread]
       \/ /\ arg[t].conn # NoSocket
          /\ p2p.sockets[arg[t].conn].open
          /\ ret' = "True"
          /\ p2p' = [p2p EXCEPT !.lock = NoThread]
       \/ /\ arg[t].conn # NoSocket
          /\ ret' = "failed"
          /\ p2p' = [_remove_peer(p2p, arg[t].peer, arg[t].conn)
                        EXCEPT !.lock = NoThread]
    /\ pc' = [pc EXCEPT ![t] = "idle"]
    /\ arg' = [arg EXCEPT ![t] = NoCallNet]
    /\ NetUnchanged

\* conn, addr = self.server_socket.accept() (p2p.py:82-86)
Accept ==
    /\ pc[Listener] = "idle"
    /\ p2p.running
    /\ p2p.server_socket = "open"
    /\ Len(p2p.sockets) < NetMaxSockets
    /\ \E peer_addr \in NetPeers :
          /\ p2p' = [p2p EXCEPT !.sockets = Append(@, NewSocket(peer_addr))]
          /\ arg' = [arg EXCEPT ![Listener] =
                        [peer |-> peer_addr, conn |-> Len(p2p.sockets) + 1]]
    /\ pc' = [pc EXCEPT ![Listener] = "accepted"]
    /\ UNCHANGED ret
    /\ NetUnchanged

\* the locked block of the listener (p2p.py:89-98)
AcceptInsert ==
    /\ pc[Listener] = "accepted"
    /\ p2p.lock = NoThread
    /\ LET peer_addr == arg[Listener].peer
           conn == arg[Listener].conn
       IN  IF peer_addr \notin DOMAIN p2p.connections
           THEN p2p' = [p2p EXCEPT !.peers = @ \cup {peer_addr},
                                   !.connections = WithKey(@, peer_addr, conn),
                                   !.sockets[conn].reader = "running"]
           ELSE p2p' = [p2p EXCEPT !.sockets = CloseAll(@, {conn})]
    /\ pc' = [pc EXCEPT ![Listener] = "idle"]
    /\ arg' = [arg EXCEPT ![Listener] = NoCallNet]
    /\ UNCHANGED ret
    /\ NetUnchanged

\* stop up to the lock (p2p.py:56-59)
StopBegin ==
    /\ pc[Stopper] = "idle"
    /\ p2p' = [p2p EXCEPT !.running = FALSE, !.server_socket = "closed"]
    /\ pc' = [pc EXCEPT ![Stopper] = "closing"]
    /\ UNCHANGED <<arg, ret>>
    /\ NetUnchanged

\* the locked block of stop, the joins and the return (p2p.py:61-77)
StopCloseAll ==
    /\ pc[Stopper] = "closing"
    /\ p2p.lock = NoThread
    /\ p2p' = [p2p EXCEPT
                  !.connections = <<>>,
                  !.sockets = CloseAll(@, {p2p.connections[a] :
                                              a \in DOMAIN p2p.connections})]
    /\ pc' = [pc EXCEPT ![Stopper] = "stopped"]
    /\ UNCHANGED <<arg, ret>>
    /\ NetUnchanged

\* _handle_peer leaves its loop because the peer closed the connection or
\* recv failed on its side (p2p.py:117-120, 141-147)
ReaderBreak(conn) ==
    /\ p2p.sockets[conn].reader = "running"
    /\ p2p.sockets[conn].open
    /\ p2p.running
    /\ p2p' = [p2p EXCEPT !.sockets[conn].reader = "leaving"]
    /\ UNCHANGED <<pc, arg, ret>>
    /\ NetUnchanged

\* _handle_peer leaves its loop because running is False or the socket was
\* closed by this node (p2p.py:113, 141-144)
ReaderStop(conn) ==
    /\ p2p.sockets[conn].reader = "running"
    /\ ~p2p.running \/ ~p2p.sockets[conn].open
    /\ p2p' = [p2p EXCEPT !.sockets[conn].reader = "leaving"]
    /\ UNCHANGED <<pc, arg, ret>>
    /\ NetUnchanged

\* self._remove_peer(peer_addr, conn) at the end of _handle_peer (p2p.py:150)
ReaderCleanup(conn) ==
    /\ p2p.sockets[conn].reader = "leaving"
    /\ p2p.lock = NoThread
    /\ p2p' = [_remove_peer(p2p, p2p.sockets[conn].peer, conn)
                  EXCEPT !.sockets[conn].reader = "exited"]
    /\ UNCHANGED <<pc, arg, ret>>
    /\ NetUnchanged

NetNext ==
    \/ \E t \in Connectors : ConnectCheck(t) \/ ConnectDial(t) \/ ConnectInsert(t)
    \/ SendCall
    \/ \E t \in Connectors \cup {Sender} : SendEnter(t) \/ SendBody(t)
    \/ Accept
    \/ AcceptInsert
    \/ StopBegin
    \/ StopCloseAll
    \/ \E conn \in 1..Len(p2p.sockets) :
          ReaderBreak(conn) \/ ReaderStop(conn) \/ ReaderCleanup(conn)

NetSpec == NetInit /\ [][NetNext]_vars

\* the sockets to peer_addr that are open and have a running reader thread
LiveSockets(peer_addr) ==
    {conn \in 1..Len(p2p.sockets) :
        /\ p2p.sockets[conn].peer = peer_addr
        /\ p2p.sockets[conn].open
        /\ p2p.sockets[conn].reader = "running"}

\* C23: one connection per peer address.  At any time at most one open socket
\* with a running reader thread exists per (host, port), and no socket is
\* ever connected to the node's own listening address.
C23_OneConnectionPerPeer ==
    /\ \A peer_addr \in NetAddrs : Cardinality(LiveSockets(peer_addr)) <= 1
    /\ \A conn \in 1..Len(p2p.sockets) : p2p.sockets[conn].peer # NetSelf

\* C24: peer removal on transport error.  When a send to P fails, and when
\* the reader loop of a connection to P ends, the step that handles it leaves
\* P in neither peers nor connections, the socket closed and the lock free;
\* the thread inside send_message never waits for the lock it holds, and the
\* lock is held only by a thread inside send_message's locked block.
C24_RemovalOnTransportError ==
    /\ [](\A t \in NetThreads :
             /\ pc[t] # "lock.acquire"
             /\ (p2p.lock = t) <=> (pc[t] = "sending"))
    /\ [][/\ \A t \in NetThreads :
                (pc[t] = "sending" /\ pc'[t] # "sending" /\ ret' = "failed")
                    => /\ arg[t].peer \notin p2p'.peers
                       /\ arg[t].peer \notin DOMAIN p2p'.connections
                       /\ ~p2p'.sockets[arg[t].conn].open
                       /\ p2p'.lock = NoThread
          /\ \A conn \in 1..Len(p2p.sockets) :
                (p2p.sockets[conn].reader = "leaving"
                    /\ p2p'.sockets[conn].reader = "exited")
                    => /\ p2p.sockets[conn].peer \notin p2p'.peers
                       /\ p2p.sockets[conn].peer \notin DOMAIN p2p'.connections
                       /\ ~p2p'.sockets[conn].open
                       /\ p2p'.lock = NoThread]_vars

\* a send has failed on a registered socket whose reader is still running
C24_Witness_SendFailed ==
    /\ ret = "failed"
    /\ pc[Sender] = "idle"
    /\ \E conn \in 1..Len(p2p.sockets) :
          ~p2p.sockets[conn].open /\ p2p.sockets[conn].reader = "running"

\* a reader has ended while the node runs and has removed its peer
C24_Witness_ReaderEnded ==
    /\ p2p.running
    /\ \E conn \in 1..Len(p2p.sockets) : p2p.sockets[conn].reader = "exited"

\* C28: transport stop closes everything.  Once stop() has returned the
\* listening socket is closed and connections is empty, in that state and in
\* every later one.
C28_StopClosesEverything ==
    pc[Stopper] = "stopped"
        => /\ p2p.server_socket = "closed"
           /\ DOMAIN p2p.connections = {}

(***************************************************************************)
(* node.py: the mining thread of a started node and the thread that calls  *)
(* Node.stop, which sets stop_mining_flag (node.py:153-156, 304).  The     *)
(* flag is cleared by start_mining only, which main.py calls once, before  *)
(* the thread exists.  No other thread takes chain_lock here, so the       *)
(* locked blocks are single steps.  ret counts the PoW searches that       *)
(* returned while the flag was set and remembers whether it was set when   *)
(* the last one returned.                                                  *)
(***************************************************************************)
CnInit ==
    /\ difficulty \in Difficulties
    /\ node_key = ScMiner
    /\ \E t \in Times :
          LET genesis == GenesisBlock(difficulty, t)
              cb == PeerCoinbase(RewardData(1), Round8(BLOCK_REWARD * Coin),
                                 Address(ScSender), <<>>)
          IN  blocks = <<genesis,
                         MinedBlock(difficulty, genesis.index + 1, genesis.hash,
                                    <<cb>>, t)>>
    /\ utxos = rebuild(blocks)
    /\ pending \in {<<>>} \cup {<<tx>> : tx \in ScTransactions(blocks, utxos, <<>>)}
    /\ chain_lock = NoThread
    /\ pc = "loop"
    /\ arg = NoBlock
    /\ ret = [searches |-> 0, set_at_return |-> FALSE, added |-> "none"]
    /\ entry = NoEntry
    /\ snap = EmptyUtxos
    /\ last_block_copy = NoBlock
    /\ mine_tail = NoBlock
    /\ unlocked = {}
    /\ sent = {}
    /\ restarts = 0
    /\ heap = <<>>
    /\ p2p = NoP2P
    /\ stop_mining_flag = FALSE
    /\ node = NoNode

\* self.stop_mining_flag.set() (node.py:156)
CnStopMining ==
    /\ ~stop_mining_flag
    /\ stop_mining_flag' = TRUE
    /\ UNCHANGED <<difficulty, node_key, blocks, utxos, pending, chain_lock, pc, arg,
                   ret, entry, snap, last_block_copy, mine_tail, unlocked, sent,
                   restarts, heap, p2p, node>>

\* "while not self.stop_mining_flag.is_set()" and the locked copy
\* (node.py:102-107)
CnLoop ==
    /\ pc = "loop"
    /\ IF stop_mining_flag
       THEN /\ pc' = "finished"
            /\ UNCHANGED <<snap, last_block_copy>>
       ELSE /\ Len(blocks) < ScMaxBlocks
            /\ snap' = utxos
            /\ last_block_copy' = Last(blocks)
            /\ pc' = "prove"
    /\ UNCHANGED <<difficulty, node_key, blocks, utxos, pending, chain_lock, arg, ret,
                   entry, mine_tail, unlocked, sent, restarts, heap, p2p,
                   stop_mining_flag, node>>

\* mine_new_block returns the block its PoW search found (node.py:114-120);
\* an exception in it ends the thread
CnProve ==
    /\ pc = "prove"
    /\ \E timestamp \in Times :
          LET m == mine_new_block(pending, snap, Last(blocks), Address(node_key),
                                  difficulty, timestamp)
          IN  IF m.raised
              THEN /\ pc' = "dead"
                   /\ arg' = arg
              ELSE /\ pc' = "proved"
                   /\ arg' = m.block
    /\ mine_tail' = Last(blocks)
    /\ ret' = [ret EXCEPT !.searches = IF stop_mining_flag THEN @ + 1 ELSE @,
                          !.set_at_return = stop_mining_flag]
    /\ UNCHANGED <<difficulty, node_key, blocks, utxos, pending, chain_lock, entry,
                   snap, last_block_copy, unlocked, sent, restarts, heap, p2p,
                   stop_mining_flag, node>>

\* the loop without the test of node.py:122
CnAfterProveUnchecked ==
    /\ pc = "proved"
    /\ pc' = "add_block"
    /\ UNCHANGED <<difficulty, node_key, blocks, utxos, pending, chain_lock, arg, ret,
                   entry, snap, last_block_copy, mine_tail, unlocked, sent, restarts,
                   heap, p2p, stop_mining_flag, node>>

\* "if self.stop_mining_flag.is_set(): break" (node.py:122)
CnAfterProve ==
    /\ pc = "proved"
    /\ pc' = IF stop_mining_flag THEN "finished" ELSE "add_block"
    /\ UNCHANGED <<difficulty, node_key, blocks, utxos, pending, chain_lock, arg, ret,
                   entry, snap, last_block_copy, mine_tail, unlocked, sent, restarts,
                   heap, p2p, stop_mining_flag, node>>

\* chain.add_block(new_block, utxo_set) under chain_lock (node.py:124-128)
CnAddBlock ==
    /\ pc = "add_block"
    /\ LET r == add_block(blocks, utxos, difficulty, arg)
       IN  /\ blocks' = r.blocks
           /\ utxos' = r.utxos
           /\ ret' = [ret EXCEPT !.added = r.result]
    /\ pc' = "added"
    /\ UNCHANGED <<difficulty, node_key, pending, chain_lock, arg, entry, snap,
                   last_block_copy, mine_tail, unlocked, sent, restarts, heap, p2p,
                   stop_mining_flag, node>>

\* the broadcast and the eviction when the block was added (node.py:130-137)
CnAfterAdd ==
    /\ pc = "added"
    /\ IF ret.added = "True"
       THEN /\ sent' = BroadcastBlock(sent, arg, Miner, NoPeer)
            /\ pending' = remove_transactions(pending, NonCoinbaseIds(arg))
       ELSE UNCHANGED <<sent, pending>>
    /\ ret' = [ret EXCEPT !.added = "none"]
    /\ pc' = "loop"
    /\ UNCHANGED <<difficulty, node_key, blocks, utxos, chain_lock, arg, entry, snap,
                   last_block_copy, mine_tail, unlocked, restarts, heap, p2p,
                   stop_mining_flag, node>>

CnMiner ==
    \/ CnLoop
    \/ CnProve
    \/ CnAfterProve
    \/ CnAddBlock
    \/ CnAfterAdd

CnNext ==
    \/ CnStopMining
    \/ CnMiner

\* the PoW search in progress returns: the step CnProve takes
CnSearchReturns == pc = "prove" /\ pc' \in {"proved", "dead"}

\* the mining thread is scheduled, and each PoW search it starts returns
CancelSpec ==
    /\ CnInit
    /\ [][CnNext]_vars
    /\ WF_vars(CnLoop \/ CnAfterProve \/ CnAddBlock \/ CnAfterAdd)
    /\ WF_pc(CnSearchReturns)

\* C27: miner cancellation.  The mining thread tests the stop flag before
\* each PoW search and after it, and leaves when it finds it set; a block
\* whose search returned after the flag was set is neither committed nor
\* broadcast; while the flag stays set at most one more search returns, and
\* the thread ends.
C27_MinerCancellation ==
    /\ [](/\ pc \in {"add_block", "added"} => ~ret.set_at_return
          /\ ret.searches <= 1)
    /\ [][/\ (blocks' # blocks \/ sent' # sent) => ~ret.set_at_return
          /\ (pc \in {"loop", "proved"} /\ stop_mining_flag /\ pc' # pc)
                 => pc' = "finished"]_vars
    /\ stop_mining_flag ~> pc \in {"finished", "dead"}

\* the flag was set during a search: the thread has ended, the block it
\* found is not in the chain and was not broadcast
C27_Witness_BlockDiscarded ==
    /\ pc = "finished"
    /\ ret.set_at_return
    /\ ret.searches = 1
    /\ arg # NoBlock
    /\ \A i \in 1..Len(blocks) : blocks[i].hash # arg.hash
    /\ \A m \in sent : m.id # arg.hash

\* the flag was set after the test that follows the search: the block was
\* committed and broadcast, and the thread ended without another search
C27_Witness_StoppedAtLoop ==
    /\ pc = "finished"
    /\ ret.searches = 0
    /\ sent # {}
    /\ Last(blocks).hash = arg.hash

(***************************************************************************)
(* p2p.py: the reader thread of one connection (_handle_peer) and the      *)
(* bytes its peer sends.  A byte is "nl" (newline), "{", "}", "a" (any     *)
(* other ASCII byte), or one of the two bytes "lead", "cont" of a          *)
(* two-byte UTF-8 character, written "ch" once decoded.  A JSON text is    *)
(* "{", then characters other than braces, then "}"; its value is what is  *)
(* between the braces, and the empty object is the value <<>>.  arg holds  *)
(* the bytes still to arrive, entry those received, p2p.buffer the buffer, *)
(* ret the messages passed to message_handler.                             *)
(***************************************************************************)
\* the number of lines a peer sends
FrMaxLines == 2

\* the lines a peer may send: a message, a message holding a two-byte
\* character, the empty object, a blank line, text that is not JSON, and a
\* message preceded by a two-byte character
FrLines ==
    {<<"{", "a", "}">>, <<"{", "lead", "cont", "}">>, <<"{", "}">>, <<>>, <<"a">>,
     <<"lead", "cont", "{", "a", "}">>}

\* the byte streams: up to FrMaxLines lines, each ended by a newline, and
\* then nothing or the beginning of a further line
FrStreams ==
    LET ended == {l \o <<"nl">> : l \in FrLines}
        some == UNION {[1..n -> ended] : n \in 0..FrMaxLines}
        tails == {<<>>, <<"{">>, <<"{", "lead">>}
    IN  {Flatten(ls) \o t : ls \in some, t \in tails}

\* data.decode('utf-8', errors='ignore') (p2p.py:122): a byte that does not
\* begin or continue a complete character is dropped
RECURSIVE decode(_)
decode(data) ==
    IF data = <<>> THEN <<>>
    ELSE IF Head(data) = "lead"
         THEN IF Len(data) >= 2 /\ data[2] = "cont"
              THEN <<"ch">> \o decode(SubSeq(data, 3, Len(data)))
              ELSE decode(Tail(data))
    ELSE IF Head(data) = "cont" THEN decode(Tail(data))
    ELSE <<Head(data)>> \o decode(Tail(data))

\* json.loads: whether the text is JSON, and its value
IsJson(text) ==
    /\ Len(text) >= 2
    /\ text[1] = "{"
    /\ text[Len(text)] = "}"
    /\ \A i \in 2..(Len(text) - 1) : text[i] \notin {"{", "}"}

\* parse_message(message_str) (message.py:34-48): the value, or None; no
\* byte of the streams is whitespace, so strip() changes nothing
parse_message(message_str) ==
    IF message_str = <<>> THEN [none |-> TRUE, value |-> <<>>]
    ELSE IF ~IsJson(message_str) THEN [none |-> TRUE, value |-> <<>>]
    ELSE [none |-> FALSE, value |-> SubSeq(message_str, 2, Len(message_str) - 1)]

\* the position of the first newline of a text that holds one
FirstNewline(text) == CHOOSE i \in 1..Len(text) :
                          text[i] = "nl" /\ \A j \in 1..(i - 1) : text[j] # "nl"

\* "while '\n' in buffer" (p2p.py:125-135): [buffer, handled]; "if message"
\* is false for None and for the empty object
RECURSIVE ProcessBuffer(_, _)
ProcessBuffer(buffer, handled) ==
    IF \A i \in 1..Len(buffer) : buffer[i] # "nl"
    THEN [buffer |-> buffer, handled |-> handled]
    ELSE LET n == FirstNewline(buffer)
             message == parse_message(SubSeq(buffer, 1, n - 1))
         IN  ProcessBuffer(SubSeq(buffer, n + 1, Len(buffer)),
                           IF ~message.none /\ message.value # <<>>
                           THEN Append(handled, message.value)
                           ELSE handled)

FrInit ==
    /\ difficulty = ScDifficulty
    /\ node_key = ScSender
    /\ blocks = <<>>
    /\ utxos = EmptyUtxos
    /\ pending = <<>>
    /\ chain_lock = NoThread
    /\ pc = "recv"
    /\ arg \in FrStreams
    /\ ret = <<>>
    /\ entry = <<>>
    /\ snap = EmptyUtxos
    /\ last_block_copy = NoBlock
    /\ mine_tail = NoBlock
    /\ unlocked = {}
    /\ sent = {}
    /\ restarts = 0
    /\ heap = <<>>
    /\ p2p = [running |-> TRUE, buffer |-> <<>>]
    /\ stop_mining_flag = FALSE
    /\ node = NoNode

FrUnchanged ==
    UNCHANGED <<difficulty, node_key, blocks, utxos, pending, chain_lock, snap,
                last_block_copy, mine_tail, unlocked, sent, restarts, heap,
                stop_mining_flag, node>>

\* one turn of the loop of _handle_peer (p2p.py:113-135): recv returns some
\* of the bytes that have arrived, the buffer takes them decoded, and every
\* complete line is parsed and dispatched
FrRecv ==
    /\ pc = "recv"
    /\ \E n \in 1..Len(arg) :
          LET data == SubSeq(arg, 1, n)
              r == ProcessBuffer(p2p.buffer \o decode(data), ret)
          IN  /\ arg' = SubSeq(arg, n + 1, Len(arg))
              /\ entry' = entry \o data
              /\ p2p' = [p2p EXCEPT !.buffer = r.buffer]
              /\ ret' = r.handled
    /\ UNCHANGED pc
    /\ FrUnchanged

\* recv returns no data: the peer closed the connection (p2p.py:117-120)
FrClosed ==
    /\ pc = "recv"
    /\ arg = <<>>
    /\ pc' = "closed"
    /\ UNCHANGED <<arg, ret, entry, p2p>>
    /\ FrUnchanged

FrNext ==
    \/ FrRecv
    \/ FrClosed

FramingSpec == FrInit /\ [][FrNext]_vars

\* the JSON values of the complete lines of a text, in order, and the text
\* after its last newline
RECURSIVE LinesOf(_, _)
LinesOf(text, values) ==
    IF \A i \in 1..Len(text) : text[i] # "nl"
    THEN [rest |-> text, values |-> values]
    ELSE LET n == FirstNewline(text)
             line == SubSeq(text, 1, n - 1)
         IN  LinesOf(SubSeq(text, n + 1, Len(text)),
                     IF IsJson(line)
                     THEN Append(values, SubSeq(line, 2, Len(line) - 1))
                     ELSE values)

\* C25: newline framing is independent of chunking and in order.  However
\* the bytes received so far were split into recv chunks, the messages
\* passed to the handler are the values of the complete lines of those bytes
\* that are JSON, once each and in stream order, and the buffer holds what
\* follows the last newline.
C25_FramingChunkingIndependent ==
    LET whole == LinesOf(decode(entry), <<>>)
    IN  /\ ret = whole.values
        /\ \A i \in 1..Len(p2p.buffer) : p2p.buffer[i] # "nl"
        /\ arg = <<>> => p2p.buffer = whole.rest

(***************************************************************************)
(* node.py: _handle_network_message, called by the reader thread of the    *)
(* connection to SenderAddr for each line it received, one at a time.  A   *)
(* message is [json, type, payload]: whether the line is JSON, the name of *)
(* its type ("unknown": a number that is no MessageType, "none": no type), *)
(* and its payload, a record whose kind is "none" (absent), "bad" (one     *)
(* that does not deserialize or lacks the key looked for), "dict" (the     *)
(* dict of a transaction or block) or "peers" (a list of addresses).       *)
(* p2p.connections is the set of addresses connected.                      *)
(***************************************************************************)
MessageTypes ==
    {"NEW_TRANSACTION", "NEW_BLOCK", "GET_BLOCKS", "SEND_BLOCKS", "GET_PEERS",
     "SEND_PEERS", "ERROR", "PING", "PONG"}

NoPayload == [kind |-> "none"]
BadPayload == [kind |-> "bad"]
HdMalformed == [json |-> FALSE, type |-> "none", payload |-> NoPayload]

\* the lines a peer sends
HdMessages(blocks_, utxos_, pending_, difficulty_) ==
    LET txs == ScTransactions(blocks_, utxos_, pending_)
        good == IF Len(blocks_) < ScMaxBlocks
                THEN ScBlocks(blocks_, pending_, difficulty_)
                ELSE {}
        unlinked == {[b EXCEPT !.index = @ + 1] : b \in good}
        raising == UNION {ScBlocks(blocks_, <<tx>>, difficulty_) : tx \in txs}
    IN  {HdMalformed}
        \cup [json : {TRUE}, type : MessageTypes \cup {"unknown", "none"},
              payload : {NoPayload, BadPayload}]
        \cup {[json |-> TRUE, type |-> "NEW_TRANSACTION",
               payload |-> [kind |-> "dict", dict |-> TransactionToDict(tx)]] : tx \in txs}
        \cup {[json |-> TRUE, type |-> "NEW_BLOCK", payload |-> [kind |-> "dict", dict |-> BlockToDict(b)]]
                 : b \in good \cup unlinked \cup (IF good = {} THEN {} ELSE raising)}
        \cup {[json |-> TRUE, type |-> "SEND_PEERS", payload |-> [kind |-> "peers", peers |-> <<OtherAddr>>]]}

\* the branch of node.py:172-223 a message takes.  MessageType(n) raises
\* ValueError for a number that is no member; MessageType has no members
\* GET_UTXOS and GET_ALL_BALANCES, so a message that reaches the test of
\* node.py:212 raises AttributeError
Branch(message) ==
    IF message.type = "unknown" THEN "ValueError"
    ELSE IF message.type = "NEW_TRANSACTION" /\ message.payload # NoPayload
         THEN "NEW_TRANSACTION"
    ELSE IF message.type = "NEW_BLOCK" /\ message.payload # NoPayload
         THEN "NEW_BLOCK"
    ELSE IF message.type = "GET_PEERS" THEN "GET_PEERS"
    ELSE IF message.type = "SEND_PEERS"
              /\ message.payload.kind = "peers"
         THEN "SEND_PEERS"
    ELSE IF message.type = "PING" THEN "PING"
    ELSE IF message.type = "PONG" THEN "PONG"
    ELSE "AttributeError"

\* the broadcast made whatever add_transaction or add_block returned
GossipAlways(accepted, sent_, type, id) ==
    Broadcast(sent_, type, id, Peer, HandlerPeer(SenderAddr))

\* "if self.mempool.add_transaction(tx):" and "if block_accepted:" before
\* the broadcast (node.py:174-177, 185-192)
GossipIfAccepted(accepted, sent_, type, id) ==
    IF accepted THEN Broadcast(sent_, type, id, Peer, HandlerPeer(SenderAddr))
    ELSE sent_

HdInit ==
    /\ difficulty = ScDifficulty
    /\ node_key = ScMiner
    /\ \E t \in Times :
          LET genesis == GenesisBlock(difficulty, t)
              cb == PeerCoinbase(RewardData(1), Round8(BLOCK_REWARD * Coin),
                                 Address(ScSender), <<>>)
          IN  blocks = <<genesis,
                         MinedBlock(difficulty, genesis.index + 1, genesis.hash,
                                    <<cb>>, t)>>
    /\ utxos = rebuild(blocks)
    /\ pending = <<>>
    /\ chain_lock = NoThread
    /\ pc = "recv"
    /\ arg = HdMalformed
    /\ ret = "none"
    /\ entry = NoEntry
    /\ snap = EmptyUtxos
    /\ last_block_copy = NoBlock
    /\ mine_tail = NoBlock
    /\ unlocked = {}
    /\ sent = {}
    /\ restarts = 0
    /\ heap = <<>>
    /\ p2p = [running |-> TRUE, connections |-> {SenderAddr}]
    /\ stop_mining_flag = FALSE
    /\ node = NoNode

HdUnchanged ==
    UNCHANGED <<difficulty, node_key, chain_lock, entry, snap, last_block_copy,
                mine_tail, unlocked, restarts, heap, stop_mining_flag, node>>

\* a line that parse_message returns None for is not passed to the handler
\* (p2p.py:127-128)
HdSkip ==
    /\ pc = "recv"
    /\ arg' = HdMalformed
    /\ ret' = "skipped"
    /\ UNCHANGED <<blocks, utxos, pending, sent, p2p, pc>>
    /\ HdUnchanged

\* p2p_node.broadcast(msg, exclude_peer=peer_addr_tuple) as the handler calls
\* it: send_message to each connection; a send that fails removes that peer
\* and closes its socket (p2p.py:199-206), and the reader of a closed socket
\* leaves its loop (p2p.py:140-143).  failed is the set of peers the sends
\* fail for
AfterBroadcast(p2p_, failed) ==
    [p2p_ EXCEPT !.connections = @ \ failed]

\* NEW_TRANSACTION with a payload (node.py:172-177)
HdNewTransaction(message) ==
    /\ Branch(message) = "NEW_TRANSACTION"
    /\ IF message.payload.kind # "dict"
       THEN /\ ret' = "raised"
            /\ UNCHANGED <<pending, sent, p2p, pc>>
       ELSE LET tx == TransactionFromDict(message.payload.dict)
                r == add_transaction(pending, ScMaxMempool, tx)
            IN  /\ pending' = r.pending
                /\ sent' = GossipIfAccepted(r.result, sent, "NEW_TRANSACTION",
                                            tx.transaction_id)
                /\ ret' = IF r.result THEN "True" ELSE "False"
                /\ \E failed \in SUBSET p2p.connections :
                      /\ ~r.result => failed = {}
                      /\ p2p' = AfterBroadcast(p2p, failed)
                      /\ pc' = IF SenderAddr \in failed THEN "closed" ELSE "recv"
    /\ UNCHANGED <<blocks, utxos>>

\* NEW_BLOCK with a payload (node.py:180-192)
HdNewBlock(message) ==
    /\ Branch(message) = "NEW_BLOCK"
    /\ IF message.payload.kind # "dict"
       THEN /\ ret' = "raised"
            /\ UNCHANGED <<blocks, utxos, pending, sent, p2p, pc>>
       ELSE LET block == BlockFromDict(message.payload.dict)
                r == add_block(blocks, utxos, difficulty, block)
            IN  /\ blocks' = r.blocks
                /\ utxos' = r.utxos
                /\ pending' = IF r.result = "True"
                              THEN remove_transactions(pending, NonCoinbaseIds(block))
                              ELSE pending
                /\ sent' = GossipIfAccepted(r.result = "True", sent, "NEW_BLOCK",
                                            block.hash)
                /\ ret' = IF r.result = "raise" THEN "raised" ELSE r.result
                /\ \E failed \in SUBSET p2p.connections :
                      /\ r.result # "True" => failed = {}
                      /\ p2p' = AfterBroadcast(p2p, failed)
                      /\ pc' = IF SenderAddr \in failed THEN "closed" ELSE "recv"

\* SEND_PEERS with a list of peers: connect_to_peer for each (node.py:202-205)
HdSendPeers(message) ==
    /\ Branch(message) = "SEND_PEERS"
    /\ \E connected \in SUBSET {message.payload.peers[i] : i \in 1..Len(message.payload.peers)} :
          p2p' = [p2p EXCEPT !.connections = @ \cup connected]
    /\ ret' = "handled"
    /\ UNCHANGED <<blocks, utxos, pending, sent, pc>>

\* P2PNode.send_message(peer_addr, message_str) without a transport failure:
\* the message goes to the connection registered under peer_addr, if there
\* is one (p2p.py:193-198, 211-213)
send_message(sent_, connections_, peer_addr, type) ==
    IF peer_addr \in connections_
    THEN sent_ \cup {[type |-> type, id |-> <<>>, by |-> Peer, to |-> {peer_addr},
                      n |-> 1 + Cardinality({m \in sent_ : m.type = type})]}
    ELSE sent_

\* GET_PEERS and PING answer with send_message(peer_addr_tuple, ...), where
\* peer_addr_tuple is the text "host:port" that the reader passes
\* (p2p.py:132-133); PONG does nothing (node.py:195-209)
HdQuery(message) ==
    /\ Branch(message) \in {"GET_PEERS", "PING", "PONG"}
    /\ sent' = IF Branch(message) = "GET_PEERS"
               THEN send_message(sent, p2p.connections, HandlerPeer(SenderAddr),
                                 "SEND_PEERS")
               ELSE IF Branch(message) = "PING"
               THEN send_message(sent, p2p.connections, HandlerPeer(SenderAddr),
                                 "PONG")
               ELSE sent
    /\ ret' = "handled"
    /\ UNCHANGED <<blocks, utxos, pending, p2p, pc>>

\* the exception is logged by the handler (node.py:225-227)
HdRaise(message) ==
    /\ Branch(message) \in {"ValueError", "AttributeError"}
    /\ ret' = "raised"
    /\ UNCHANGED <<blocks, utxos, pending, sent, p2p, pc>>

\* the reader parses a line and calls the handler (p2p.py:127-135)
HdReceive ==
    /\ pc = "recv"
    /\ \E message \in HdMessages(blocks, utxos, pending, difficulty) \ {HdMalformed} :
          /\ arg' = message
          /\ \/ HdNewTransaction(message)
             \/ HdNewBlock(message)
             \/ HdSendPeers(message)
             \/ HdQuery(message)
             \/ HdRaise(message)
    /\ HdUnchanged

HdNext ==
    \/ HdSkip
    \/ HdReceive

HandlerSpec == HdInit /\ [][HdNext]_vars

\* the message last received is one the node cannot process: malformed JSON,
\* an unknown or missing type, a reserved type, a missing payload where one
\* is needed, or a payload that did not deserialize or validate
Unprocessable ==
    \/ ~arg.json
    \/ arg.type \in {"unknown", "none", "GET_BLOCKS", "SEND_BLOCKS", "ERROR"}
    \/ /\ arg.type \in {"NEW_TRANSACTION", "NEW_BLOCK", "SEND_PEERS"}
       /\ arg.payload.kind \in {"none", "bad"}
    \/ /\ arg.type \in {"NEW_TRANSACTION", "NEW_BLOCK"}
       /\ ret \in {"False", "raised"}

\* C26: a message the node cannot process (malformed JSON, unknown, missing
\* or reserved type, missing payload, payload that fails to deserialize or
\* validate) leaves the chain, the UTXO set and the mempool as they were, is
\* not re-broadcast, leaves the sending peer (and every other) in
\* connections, and leaves the reader receiving
C26_UnprocessableIsNoOp ==
    [][Unprocessable'
          => /\ blocks' = blocks
             /\ utxos' = utxos
             /\ pending' = pending
             /\ sent' = sent
             /\ p2p'.connections = p2p.connections
             /\ SenderAddr \in p2p'.connections
             /\ pc' = "recv"]_vars

\* a block that add_block rejected was received while a transaction waited in
\* the mempool and two peers were connected
C26_Witness_RejectedBlock ==
    /\ pc = "recv"
    /\ arg.json
    /\ arg.type = "NEW_BLOCK"
    /\ arg.payload.kind = "dict"
    /\ ret \in {"False", "raised"}
    /\ pending # <<>>
    /\ p2p.connections = {SenderAddr, OtherAddr}

\* a message of a reserved type was received after a block from a peer had
\* been accepted and gossiped
C26_Witness_ReservedType ==
    /\ pc = "recv"
    /\ arg.type \in {"GET_BLOCKS", "SEND_BLOCKS", "ERROR"}
    /\ ret = "raised"
    /\ \E m \in sent : m.type = "NEW_BLOCK"

\* C40: peer bookkeeping is consistent.  Whenever the transport lock is free,
\* peers equals the key set of connections, so that get_peer_list reports
\* exactly the peers that have a registered connection.
C40_PeersAreConnectionKeys ==
    p2p.lock = NoThread => p2p.peers = DOMAIN p2p.connections

\* C39: request/reply routing.  A step in which the node handles a PING from
\* the connected peer SenderAddr sends a PONG to that peer and to no other,
\* and a step in which it handles GET_PEERS sends SEND_PEERS to that peer and
\* to no other.
C39_RequestReplyRouting ==
    [][(arg'.json /\ arg'.type \in {"PING", "GET_PEERS"} /\ ret' = "handled")
          => \E m \in sent' \ sent :
                /\ m.type = (IF arg'.type = "PING" THEN "PONG" ELSE "SEND_PEERS")
                /\ m.to = {SenderAddr}]_vars

\* C32: transaction identity integrity.  Every transaction in the mempool or
\* in a block of the chain, however it arrived, has a transaction_id equal
\* to the id computed from its own inputs and outputs.
C32_TransactionIdIntegrity ==
    LET held == CommittedTxs(blocks) \o pending
    IN  \A i \in 1..Len(held) :
           held[i].transaction_id
              = _calculate_transaction_id(held[i].inputs, held[i].outputs)

\* the sum of the amounts of all entries of a UTXO set
TotalUtxoAmount(utxos_) ==
    LET RECURSIVE Total(_)
        Total(ks) == IF ks = {} THEN 0
                     ELSE LET k == CHOOSE x \in ks : TRUE
                          IN  utxos_[k].amount + Total(ks \ {k})
    IN  Total(DOMAIN utxos_)

\* the fees of the non-coinbase transactions of txs from position i on, each
\* taken in the UTXO state just before it: inputs minus outputs
RECURSIVE BlockFees(_, _, _)
BlockFees(utxos_, txs, i) ==
    IF i > Len(txs) THEN 0
    ELSE IF is_coinbase(txs[i])
         THEN BlockFees(AddOutputs(utxos_, txs[i], 1), txs, i + 1)
         ELSE InputValue(utxos_, txs[i]) - TotalOutputValue(txs[i])
                 + BlockFees(SpendAndAdd(utxos_, txs[i]), txs, i + 1)

\* what the coinbase transactions of a block pay out
CoinbaseValue(block) ==
    SumSeq([i \in 1..Len(block.transactions) |->
               IF is_coinbase(block.transactions[i])
               THEN TotalOutputValue(block.transactions[i]) ELSE 0])

\* C36: bounded issuance.  The coinbase of every block of the chain after the
\* genesis pays at most BLOCK_REWARD plus the fees of the block's other
\* transactions, and the UTXO set holds at most BLOCK_REWARD times the number
\* of non-genesis blocks.
C36_BoundedIssuance ==
    /\ \A i \in 2..Len(blocks) :
          CoinbaseValue(blocks[i])
             <= BLOCK_REWARD * Coin
                + BlockFees(rebuild(SubSeq(blocks, 1, i - 1)), blocks[i].transactions, 1)
    /\ TotalUtxoAmount(utxos) <= BLOCK_REWARD * Coin * (Len(blocks) - 1)

\* C35: the mempool holds only unmined transactions.  Whenever no thread is
\* between the commit of a block and the eviction of its transactions, no
\* transaction of the mempool is a transaction of a block of the chain.
C35_MempoolHoldsOnlyUnmined ==
    (\A t \in Threads : pc[t] \notin {"append", "returned", "after"})
        => LET committed == CommittedTxs(blocks)
           IN  \A i \in 1..Len(pending) : \A j \in 1..Len(committed) :
                  pending[i] # committed[j]

\* every removal of an input of inputs from position i on finds its entry
RECURSIVE InputsExist(_, _, _)
InputsExist(utxos_, inputs, i) ==
    IF i > Len(inputs) THEN TRUE
    ELSE /\ HasUtxo(utxos_, inputs[i].transaction_id, inputs[i].output_index)
         /\ InputsExist(remove_utxo(utxos_, inputs[i].transaction_id,
                                    inputs[i].output_index), inputs, i + 1)

\* update_from_block replayed on utxos_ from transaction i on: every
\* remove_utxo it performs removes an entry that is there at that moment
RECURSIVE RemovalsExist(_, _, _)
RemovalsExist(utxos_, txs, i) ==
    IF i > Len(txs) THEN TRUE
    ELSE IF is_coinbase(txs[i])
         THEN RemovalsExist(AddOutputs(utxos_, txs[i], 1), txs, i + 1)
         ELSE /\ InputsExist(utxos_, txs[i].inputs, 1)
              /\ RemovalsExist(SpendAndAdd(utxos_, txs[i]), txs, i + 1)

\* the validation snapshot at the end of the dry run of add_block, with the
\* outputs of the block's coinbase transaction added
DryRunPlusCoinbase(utxos_, block) ==
    AddOutputs(ValidateBlockTxs(block.transactions, 1, utxos_, 0).temp,
               block.transactions[1], 1)

\* C31: dry run and commit agree.  When add_block has accepted a block, every
\* input removal of update_from_block on the live UTXO set removed an entry
\* that was there, and the live UTXO set equals the validation snapshot after
\* the dry run plus the coinbase outputs.
C31_DryRunAndCommitAgree ==
    (pc \in {"add_block", "committed"} /\ ret.block = "True")
        => /\ RemovalsExist(entry.utxos, arg.block.transactions, 1)
           /\ utxos = DryRunPlusCoinbase(entry.utxos, arg.block)

(***************************************************************************)
(* node.py: the mining thread of a node whose mempool receives             *)
(* transactions while it mines; no block arrives from peers.  The mempool  *)
(* starts with transactions that spend outputs that do not exist, which    *)
(* the mempool admits (its validation does not look at the UTXO set) and   *)
(* which nothing removes.                                                  *)
(***************************************************************************)
\* longest chain explored here (genesis included)
LvMaxBlocks == 4
\* transactions the mempool has room for beyond the limit of
\* get_pending_transactions (Mempool(max_size=1000) against limit=50)
LvMaxExtra == 1

\* a correctly signed spend of an output that does not exist
JunkTx(j) ==
    PeerSpend(<<<<0, j>>, 0>>, Quantum, Address(ScSender), ScSender, "tx",
              PublicKey(ScSender), <<>>)

\* the sender's spend of the coinbase output of block 1, with a fee
LvTx(blocks_) ==
    LET cb == blocks_[2].transactions[1]
    IN  PeerSpend(<<cb.transaction_id, 0>>, cb.outputs[1].amount - Quantum,
                  PayTo(ScSender), ScSender, "tx", PublicKey(ScSender), <<>>)

LvInit ==
    /\ difficulty \in Difficulties
    /\ node_key = ScMiner
    /\ \E t \in Times :
          LET genesis == GenesisBlock(difficulty, t)
              cb == PeerCoinbase(RewardData(1), Round8(BLOCK_REWARD * Coin),
                                 Address(ScSender), <<>>)
          IN  blocks = <<genesis,
                         MinedBlock(difficulty, genesis.index + 1, genesis.hash,
                                    <<cb>>, t)>>
    /\ utxos = rebuild(blocks)
    /\ \E n \in {PendingLimit - 2, PendingLimit - 1, PendingLimit} :
          pending = [j \in 1..n |-> JunkTx(j)]
    /\ chain_lock = NoThread
    /\ pc = "loop"
    /\ arg = NoBlock
    /\ ret = "none"
    /\ entry = NoEntry
    /\ snap = EmptyUtxos
    /\ last_block_copy = NoBlock
    /\ mine_tail = NoBlock
    /\ unlocked = {}
    /\ sent = {}
    /\ restarts = 0
    /\ heap = <<>>
    /\ p2p = NoP2P
    /\ stop_mining_flag = FALSE
    /\ node = NoNode

LvUnchanged ==
    UNCHANGED <<difficulty, node_key, chain_lock, entry, mine_tail, unlocked,
                restarts, heap, p2p, stop_mining_flag, node>>

\* mempool.add_transaction of a submitted transaction (node.py:172-174): the
\* sender's spend, or one more spend of an output that does not exist
LvSubmit ==
    /\ \E tx \in {LvTx(blocks),
                  JunkTx(1 + Cardinality({i \in 1..Len(pending) :
                                             pending[i] # LvTx(blocks)}))} :
          pending' = add_transaction(pending, PendingLimit + LvMaxExtra, tx).pending
    /\ UNCHANGED <<blocks, utxos, pc, arg, ret, snap, last_block_copy, sent>>
    /\ LvUnchanged

\* the locked copy at the top of the loop (node.py:102-107)
LvLoop ==
    /\ pc = "loop"
    /\ Len(blocks) < LvMaxBlocks
    /\ snap' = utxos
    /\ last_block_copy' = Last(blocks)
    /\ pc' = "prove"
    /\ UNCHANGED <<blocks, utxos, pending, arg, ret, sent>>
    /\ LvUnchanged

\* mine_new_block returns the block its PoW search found (node.py:114-120)
LvProve ==
    /\ pc = "prove"
    /\ \E timestamp \in Times :
          LET m == mine_new_block(pending, snap, Last(blocks), Address(node_key),
                                  difficulty, timestamp)
          IN  /\ ~m.raised
              /\ arg' = m.block
    /\ pc' = "add_block"
    /\ UNCHANGED <<blocks, utxos, pending, ret, snap, last_block_copy, sent>>
    /\ LvUnchanged

\* chain.add_block(new_block, utxo_set) under chain_lock (node.py:124-128)
LvAddBlock ==
    /\ pc = "add_block"
    /\ LET r == add_block(blocks, utxos, difficulty, arg)
       IN  /\ blocks' = r.blocks
           /\ utxos' = r.utxos
           /\ ret' = r.result
    /\ pc' = "added"
    /\ UNCHANGED <<pending, arg, snap, last_block_copy, sent>>
    /\ LvUnchanged

\* the broadcast and the eviction when the block was added (node.py:130-137)
LvAfterAdd ==
    /\ pc = "added"
    /\ IF ret = "True"
       THEN /\ sent' = BroadcastBlock(sent, arg, Miner, NoPeer)
            /\ pending' = remove_transactions(pending, NonCoinbaseIds(arg))
       ELSE UNCHANGED <<sent, pending>>
    /\ ret' = "none"
    /\ pc' = "loop"
    /\ UNCHANGED <<blocks, utxos, arg, snap, last_block_copy>>
    /\ LvUnchanged

LvNext ==
    \/ LvSubmit
    \/ LvLoop
    \/ LvProve
    \/ LvAddBlock
    \/ LvAfterAdd

\* the PoW search in progress returns: the step LvProve takes
LvSearchReturns == pc = "prove" /\ pc' = "add_block"

\* the mining thread keeps running, and each PoW search it starts returns
InclusionSpec ==
    /\ LvInit
    /\ [][LvNext]_vars
    /\ WF_vars(LvLoop \/ LvAddBlock \/ LvAfterAdd)
    /\ WF_pc(LvSearchReturns)

LcMaxThreads == 2
\* longest chain explored here (genesis included)
LcMaxBlocks == 3

LcMiner(i) == <<"miner", i>>
LcMiners == {LcMiner(i) : i \in 1..LcMaxThreads}
LcReader == <<"reader", 0>>
LcControl == <<"control", 0>>
\* mining_thread = None
LcNoThread == <<"none", 0>>
\* no chain file written yet
LcNoFile == <<>>

\* the threads inside _mining_loop
LcMining == {t \in LcMiners : pc[t] \notin {"unborn", "finished"}}

LcInit ==
    /\ difficulty = ScDifficulty
    /\ node_key = ScMiner
    /\ \E t \in Times : blocks = <<GenesisBlock(difficulty, t)>>
    /\ utxos = rebuild(blocks)
    /\ pending = <<>>
    /\ chain_lock = NoThread
    /\ pc = [t \in LcMiners \cup {LcReader, LcControl} |->
                IF t \in LcMiners THEN "unborn"
                ELSE IF t = LcReader THEN "recv" ELSE "idle"]
    /\ arg = [t \in LcMiners \cup {LcReader} |-> NoBlock]
    /\ ret = [t \in LcMiners \cup {LcReader} |-> "none"]
    /\ entry = NoEntry
    /\ snap = [t \in LcMiners |-> EmptyUtxos]
    /\ last_block_copy = [t \in LcMiners |-> NoBlock]
    /\ mine_tail = NoBlock
    /\ unlocked = {}
    /\ sent = {}
    /\ restarts = 0
    /\ heap = <<>>
    /\ p2p = [running |-> TRUE]
    /\ stop_mining_flag = FALSE
    /\ node = [is_mining |-> FALSE, mining_thread |-> LcNoThread,
               chain_file |-> LcNoFile]

LcUnchanged ==
    UNCHANGED <<difficulty, node_key, chain_lock, entry, mine_tail, unlocked,
                restarts, heap>>

\* start_mining (node.py:145-151); when is_mining is set it returns at once
LcStartMining ==
    /\ pc[LcControl] = "idle"
    /\ ~node.is_mining
    /\ \E i \in 1..LcMaxThreads :
          /\ pc[LcMiner(i)] = "unborn"
          /\ \A j \in 1..(i - 1) : pc[LcMiner(j)] # "unborn"
          /\ node' = [node EXCEPT !.is_mining = TRUE, !.mining_thread = LcMiner(i)]
          /\ pc' = [pc EXCEPT ![LcMiner(i)] = "loop"]
    /\ stop_mining_flag' = FALSE
    /\ UNCHANGED <<blocks, utxos, pending, arg, ret, snap, last_block_copy, sent, p2p>>
    /\ LcUnchanged

\* stop_mining up to the join (node.py:153-157), called directly or as the
\* first statement of Node.stop (node.py:304); when the node is not mining
\* it returns at once
LcStopMining ==
    /\ pc[LcControl] \in {"idle", "stop"}
    /\ IF node.is_mining /\ node.mining_thread # LcNoThread
       THEN /\ stop_mining_flag' = TRUE
            /\ pc' = [pc EXCEPT ![LcControl] =
                         IF pc[LcControl] = "idle" THEN "join" ELSE "stop: join"]
       ELSE /\ pc[LcControl] = "stop"
            /\ pc' = [pc EXCEPT ![LcControl] = "stop: p2p"]
            /\ UNCHANGED stop_mining_flag
    /\ UNCHANGED <<blocks, utxos, pending, arg, ret, snap, last_block_copy, sent,
                   p2p, node>>
    /\ LcUnchanged

\* mining_thread.join(timeout=2.0) returns: the thread has finished, or the
\* two seconds passed while it was in a PoW search; then is_mining = False
\* and mining_thread = None (node.py:157-159)
LcJoined == pc[node.mining_thread] \in {"finished", "prove"}

LcJoin ==
    /\ pc[LcControl] \in {"join", "stop: join"}
    /\ LcJoined
    /\ node' = [node EXCEPT !.is_mining = FALSE, !.mining_thread = LcNoThread]
    /\ pc' = [pc EXCEPT ![LcControl] =
                 IF pc[LcControl] = "join" THEN "idle" ELSE "stop: p2p"]
    /\ UNCHANGED <<blocks, utxos, pending, arg, ret, snap, last_block_copy, sent,
                   p2p, stop_mining_flag>>
    /\ LcUnchanged

\* Node.stop is called (node.py:302-303)
LcStop ==
    /\ pc[LcControl] = "idle"
    /\ pc' = [pc EXCEPT ![LcControl] = "stop"]
    /\ UNCHANGED <<blocks, utxos, pending, arg, ret, snap, last_block_copy, sent,
                   p2p, stop_mining_flag, node>>
    /\ LcUnchanged

\* p2p_node.stop(): running = False, the sockets are closed; the reader
\* threads are not joined (node.py:305, p2p.py:53-77)
LcStopP2P ==
    /\ pc[LcControl] = "stop: p2p"
    /\ p2p' = [p2p EXCEPT !.running = FALSE]
    /\ pc' = [pc EXCEPT ![LcControl] = "stop: save"]
    /\ UNCHANGED <<blocks, utxos, pending, arg, ret, snap, last_block_copy, sent,
                   stop_mining_flag, node>>
    /\ LcUnchanged

\* save_chain() under chain_lock, and Node.stop returns (node.py:306-313)
LcSaveChain ==
    /\ pc[LcControl] = "stop: save"
    /\ node' = [node EXCEPT !.chain_file = save_to_file(blocks)]
    /\ pc' = [pc EXCEPT ![LcControl] = "stopped"]
    /\ UNCHANGED <<blocks, utxos, pending, arg, ret, snap, last_block_copy, sent,
                   p2p, stop_mining_flag>>
    /\ LcUnchanged

\* "while not self.stop_mining_flag.is_set()" and the locked copy
\* (node.py:102-107)
LcLoop(t) ==
    /\ pc[t] = "loop"
    /\ IF stop_mining_flag
       THEN /\ pc' = [pc EXCEPT ![t] = "finished"]
            /\ UNCHANGED <<snap, last_block_copy>>
       ELSE /\ Len(blocks) < LcMaxBlocks
            /\ snap' = [snap EXCEPT ![t] = utxos]
            /\ last_block_copy' = [last_block_copy EXCEPT ![t] = Last(blocks)]
            /\ pc' = [pc EXCEPT ![t] = "prove"]
    /\ UNCHANGED <<blocks, utxos, pending, arg, ret, sent, p2p, stop_mining_flag,
                   node>>
    /\ LcUnchanged

\* mine_new_block returns the block its PoW search found (node.py:114-120)
LcProve(t) ==
    /\ pc[t] = "prove"
    /\ \E timestamp \in Times :
          arg' = [arg EXCEPT ![t] =
                     mine_new_block(pending, snap[t], Last(blocks),
                                    Address(node_key), difficulty, timestamp).block]
    /\ pc' = [pc EXCEPT ![t] = "proved"]
    /\ UNCHANGED <<blocks, utxos, pending, ret, snap, last_block_copy, sent, p2p,
                   stop_mining_flag, node>>
    /\ LcUnchanged

\* "if self.stop_mining_flag.is_set(): break" (node.py:122)
LcAfterProve(t) ==
    /\ pc[t] = "proved"
    /\ pc' = [pc EXCEPT ![t] = IF stop_mining_flag THEN "finished" ELSE "add_block"]
    /\ UNCHANGED <<blocks, utxos, pending, arg, ret, snap, last_block_copy, sent,
                   p2p, stop_mining_flag, node>>
    /\ LcUnchanged

\* chain.add_block(new_block, utxo_set) under chain_lock (node.py:124-128)
LcAddBlock(t) ==
    /\ pc[t] = "add_block"
    /\ LET r == add_block(blocks, utxos, difficulty, arg[t])
       IN  /\ blocks' = r.blocks
           /\ utxos' = r.utxos
           /\ ret' = [ret EXCEPT ![t] = r.result]
    /\ pc' = [pc EXCEPT ![t] = "added"]
    /\ UNCHANGED <<pending, arg, snap, last_block_copy, sent, p2p,
                   stop_mining_flag, node>>
    /\ LcUnchanged

\* the broadcast and the eviction when the block was added (node.py:130-137)
LcAfterAdd(t) ==
    /\ pc[t] = "added"
    /\ IF ret[t] = "True"
       THEN /\ sent' = BroadcastBlock(sent, arg[t], Miner, NoPeer)
            /\ pending' = remove_transactions(pending, NonCoinbaseIds(arg[t]))
       ELSE UNCHANGED <<sent, pending>>
    /\ ret' = [ret EXCEPT ![t] = "none"]
    /\ pc' = [pc EXCEPT ![t] = "loop"]
    /\ UNCHANGED <<blocks, utxos, arg, snap, last_block_copy, p2p,
                   stop_mining_flag, node>>
    /\ LcUnchanged

\* the reader has received a NEW_BLOCK line and deserialized the block, a
\* block of one coinbase on the tail of the chain (node.py:180-181)
LcReceive ==
    /\ pc[LcReader] = "recv"
    /\ p2p.running
    /\ Len(blocks) < LcMaxBlocks
    /\ \E t \in Times :
          LET tail == Last(blocks)
              cb == PeerCoinbase(RewardData(tail.index + 1),
                                 Round8(BLOCK_REWARD * Coin), Address(PeerKey), <<>>)
              b == MinedBlock(difficulty, tail.index + 1, tail.hash, <<cb>>, t)
          IN  arg' = [arg EXCEPT ![LcReader] = BlockFromDict(BlockToDict(b))]
    /\ pc' = [pc EXCEPT ![LcReader] = "handling"]
    /\ UNCHANGED <<blocks, utxos, pending, ret, snap, last_block_copy, sent, p2p,
                   stop_mining_flag, node>>
    /\ LcUnchanged

\* add_block under chain_lock, then eviction and gossip (node.py:183-192)
LcHandle ==
    /\ pc[LcReader] = "handling"
    /\ LET r == add_block(blocks, utxos, difficulty, arg[LcReader])
       IN  /\ blocks' = r.blocks
           /\ utxos' = r.utxos
           /\ ret' = [ret EXCEPT ![LcReader] = r.result]
           /\ pending' = IF r.result = "True"
                         THEN remove_transactions(pending,
                                                  NonCoinbaseIds(arg[LcReader]))
                         ELSE pending
           /\ sent' = GossipIfAccepted(r.result = "True", sent, "NEW_BLOCK",
                                       arg[LcReader].hash)
    /\ pc' = [pc EXCEPT ![LcReader] = "recv"]
    /\ UNCHANGED <<arg, snap, last_block_copy, p2p, stop_mining_flag, node>>
    /\ LcUnchanged

\* "while self.running" ends the reader's loop (p2p.py:113, 149)
LcReaderExit ==
    /\ pc[LcReader] = "recv"
    /\ ~p2p.running
    /\ pc' = [pc EXCEPT ![LcReader] = "exited"]
    /\ UNCHANGED <<blocks, utxos, pending, arg, ret, snap, last_block_copy, sent,
                   p2p, stop_mining_flag, node>>
    /\ LcUnchanged

LcNext ==
    \/ LcStartMining
    \/ LcStopMining
    \/ LcJoin
    \/ LcStop
    \/ LcStopP2P
    \/ LcSaveChain
    \/ \E t \in LcMiners :
          \/ LcLoop(t)
          \/ LcProve(t)
          \/ LcAfterProve(t)
          \/ LcAddBlock(t)
          \/ LcAfterAdd(t)
    \/ LcReceive
    \/ LcHandle
    \/ LcReaderExit

LifecycleSpec == LcInit /\ [][LcNext]_vars

\* C37: at most one miner per node.  Under any sequence of start_mining and
\* stop_mining calls at most one thread is executing _mining_loop.
C37_AtMostOneMiner == Cardinality(LcMining) <= 1

\* C38: stop is final.  Once Node.stop has returned, the chain file it wrote
\* holds every block of the chain in memory, in that state and in every
\* later one: no thread appends a block after the chain was saved.
C38_StopIsFinal ==
    pc[LcControl] = "stopped" => node.chain_file = save_to_file(blocks)

(***************************************************************************)
(* A network of freshly started, connected nodes.  Every node builds its   *)
(* own genesis block with timestamp = time.time() (chain.py:35), mines on  *)
(* its own chain and broadcasts what it added; a NEW_BLOCK reaching a node *)
(* goes through add_block and is gossiped on when accepted.  In this       *)
(* specification blocks, utxos and arg are indexed by node; sent holds the *)
(* NEW_BLOCK messages in flight as records [to, block].                    *)
(***************************************************************************)
\* nodes of the network
RpNumNodes == 2
\* clock values a node may read
RpMaxTime == 2
\* longest chain of a node (genesis included)
RpMaxBlocks == 3

RpNodes == 1..RpNumNodes
RpTimes == 1..RpMaxTime

\* broadcast to every connection: exclude_peer is the "host:port" string and
\* matches no key, so the sender of a gossiped block receives it back
RpBroadcast(sent_, n, block) ==
    sent_ \cup {[to |-> m, block |-> BlockToDict(block)] : m \in RpNodes \ {n}}

RpInit ==
    /\ difficulty = ScDifficulty
    /\ node_key = ScMiner
    /\ \E ts \in [RpNodes -> RpTimes] :
          blocks = [n \in RpNodes |-> <<GenesisBlock(difficulty, ts[n])>>]
    /\ utxos = [n \in RpNodes |-> rebuild(blocks[n])]
    /\ pending = <<>>
    /\ chain_lock = NoThread
    /\ pc = "ready"
    /\ arg = [n \in RpNodes |-> NoBlock]
    /\ ret = "none"
    /\ entry = NoEntry
    /\ snap = EmptyUtxos
    /\ last_block_copy = NoBlock
    /\ mine_tail = NoBlock
    /\ unlocked = {}
    /\ sent = {}
    /\ restarts = 0
    /\ heap = <<>>
    /\ p2p = NoP2P
    /\ stop_mining_flag = FALSE
    /\ node = NoNode

RpUnchanged ==
    UNCHANGED <<difficulty, node_key, pending, chain_lock, pc, ret, entry, snap,
                last_block_copy, mine_tail, unlocked, restarts, heap, p2p,
                stop_mining_flag, node>>

\* node n: the locked copy and mine_new_block on its own tail, rewarding
\* its own wallet (node.py:102-120)
RpMine(n) ==
    /\ arg[n] = NoBlock
    /\ Len(blocks[n]) < RpMaxBlocks
    /\ \E timestamp \in RpTimes :
          arg' = [arg EXCEPT ![n] =
                     mine_new_block(<<>>, utxos[n], Last(blocks[n]), Address(n),
                                    difficulty, timestamp).block]
    /\ UNCHANGED <<blocks, utxos, sent>>
    /\ RpUnchanged

\* node n: add_block of the block it mined and the broadcast when it was
\* added (node.py:122-137)
RpCommit(n) ==
    /\ arg[n] # NoBlock
    /\ LET r == add_block(blocks[n], utxos[n], difficulty, arg[n])
       IN  /\ blocks' = [blocks EXCEPT ![n] = r.blocks]
           /\ utxos' = [utxos EXCEPT ![n] = r.utxos]
           /\ sent' = IF r.result = "True" THEN RpBroadcast(sent, n, arg[n])
                      ELSE sent
    /\ arg' = [arg EXCEPT ![n] = NoBlock]
    /\ RpUnchanged

\* node n handles a NEW_BLOCK message addressed to it (node.py:180-192)
RpDeliver(n) ==
    \E m \in sent :
       /\ m.to = n
       /\ LET block == BlockFromDict(m.block)
              r == add_block(blocks[n], utxos[n], difficulty, block)
          IN  /\ blocks' = [blocks EXCEPT ![n] = r.blocks]
              /\ utxos' = [utxos EXCEPT ![n] = r.utxos]
              /\ sent' = IF r.result = "True"
                         THEN RpBroadcast(sent \ {m}, n, block)
                         ELSE sent \ {m}
       /\ UNCHANGED arg
       /\ RpUnchanged

RpNext ==
    \E n \in RpNodes :
       \/ RpMine(n)
       \/ RpCommit(n)
       \/ RpDeliver(n)

ReplicationSpec == RpInit /\ [][RpNext]_vars

\* the smaller of two chain lengths
RpCommonHeight(a, b) == IF Len(a) <= Len(b) THEN Len(a) ELSE Len(b)

\* C33: replication across nodes.  Any two nodes of a freshly started,
\* connected network hold the same block (same hash) at every height that
\* both chains contain, the genesis at height 0 included.
C33_ReplicasAgree ==
    \A n1 \in RpNodes, n2 \in RpNodes :
       \A h \in 1..RpCommonHeight(blocks[n1], blocks[n2]) :
          blocks[n1][h].hash = blocks[n2][h].hash

====
